---------------------------- MODULE Spec2Model ----------------------------
(***************************************************************************)
(* Ephemeris-quality integration session of reboundx/ephemeris_forces:     *)
(* the ephemeris facade (ephem, ast_ephem, all_ephem), the force routine's *)
(* ephemeris look-ups and error reports, the heartbeat (store_function,    *)
(* reb_update_acceleration, store_last_state) and integration_function.    *)
(*                                                                         *)
(* Floating-point values are symbolic.  A time is the triple <<t, dt, n>>: *)
(* Radau node n of the step of length dt that starts at t; a step boundary *)
(* is <<t, 0, 0>>.  A particle's position/velocity is named by the number  *)
(* of accepted steps it has been advanced by, an acceleration by the time  *)
(* the force routine evaluated it at.                                      *)
(***************************************************************************)
EXTENDS Integers, Sequences, FiniteSets, TLC

VARIABLES
    fac,              \* statics of ephem/ast_ephem/all_ephem
    last_steps_done,  \* static of store_function
    jpl_file,         \* jpl_init() would succeed now
    spk_file,         \* spk_init(buf) would succeed now
    env_changed,      \* an ephemeris file appeared or vanished since process start
    called,           \* integration_function has returned before in this process
    q,                \* result of the last direct facade query
    pc,               \* position of the caller inside integration_function
    args,             \* arguments of the current call
    r,                \* struct reb_simulation
    ts,               \* timestate record
    outtime,          \* caller's time buffer: written index -> value, write count
    outstate,         \* caller's state buffer: written index -> value, write count
    heap,             \* allocation -> "none" | "live" | "freed"
    mallocs,          \* allocation -> number of malloc calls in this call
    frees,            \* allocation -> number of free calls in this call
    uaf,              \* an allocation was used or freed while not live
    n_out,            \* *n_out
    status,           \* return value of integration_function
    kern              \* one force evaluation followed term by term

vars == << fac, last_steps_done, jpl_file, spk_file, env_changed, called, q,
           pc, args, r, ts, outtime, outstate, heap, mallocs, frees, uaf,
           n_out, status, kern >>

session == << pc, args, r, ts, outtime, outstate, heap, mallocs, frees, uaf,
              n_out, status >>

----------------------------------------------------------------------------
(* Bounds of the model *)

MaxT == 2
MaxAlloc == 2
MaxReal == 2
MaxVar == 1
MaxSib == 2

----------------------------------------------------------------------------
(* Program constants *)

NO_ERR == 0
ERR_JPL_EPHEM == 1
ERR_JPL_AST == 2
ERR_NAST == 3
ERR_NEPH == 4

N_ephem == 11
N_ast == 16
N_tot == N_ephem + N_ast

reb_max_messages_N == 10
nsub == 10
hg_den == 10

hg_num(n) == n

----------------------------------------------------------------------------
(* Times *)

Time(t, dt, n) == IF n = 0 THEN << t, 0, 0 >> ELSE << t, dt, n >>

NoTime == << 0 - 1, 0, 0 >>

\* An acceleration computed from a failed look-up's uninitialised outputs or
\* from a Sun state of another time: no defined value.
Garbage == << 0 - 2, 0, 0 >>

----------------------------------------------------------------------------
(* Ephemeris facade *)

Ev(op, i, t) == [op |-> op, i |-> i, t |-> t]

NoOut == [body |-> 0 - 1, t |-> NoTime, sun |-> NoTime, vel |-> FALSE]

ephem(initialized, i, jde) ==
    IF i < 0 \/ i > 10
    THEN [flag |-> ERR_NEPH, initialized |-> initialized, ev |-> << >>,
          out |-> NoOut]
    ELSE IF initialized = 0 /\ ~jpl_file
    THEN [flag |-> ERR_JPL_EPHEM, initialized |-> 0,
          ev |-> << Ev("jpl_init", 0 - 1, NoTime) >>, out |-> NoOut]
    ELSE [flag |-> NO_ERR, initialized |-> 1,
          ev |-> (IF initialized = 0
                  THEN << Ev("jpl_init", 0 - 1, NoTime) >> ELSE << >>)
                 \o << Ev("JPL_GM", i, NoTime), Ev("jpl_calc", i, jde) >>,
          out |-> [body |-> i, t |-> jde, sun |-> NoTime, vel |-> TRUE]]

\* Variant: the range test admits one index past the table.
ast_ephem_Wide(initialized, i, jde) ==
    IF i < 0 \/ i > 16
    THEN [flag |-> ERR_NAST, initialized |-> initialized, ev |-> << >>,
          out |-> NoOut]
    ELSE IF initialized = 0 /\ ~spk_file
    THEN [flag |-> ERR_JPL_AST, initialized |-> 0,
          ev |-> << Ev("spk_init", 0 - 1, NoTime) >>, out |-> NoOut]
    ELSE [flag |-> NO_ERR, initialized |-> 1,
          ev |-> (IF initialized = 0
                  THEN << Ev("spk_init", 0 - 1, NoTime) >> ELSE << >>)
                 \o << Ev("AST_GM", i, NoTime), Ev("spk_calc", i, jde) >>,
          out |-> [body |-> i + N_ephem, t |-> jde, sun |-> NoTime,
                   vel |-> FALSE]]

ast_ephem(initialized, i, jde) ==
    IF i < 0 \/ i > 15
    THEN [flag |-> ERR_NAST, initialized |-> initialized, ev |-> << >>,
          out |-> NoOut]
    ELSE IF initialized = 0 /\ ~spk_file
    THEN [flag |-> ERR_JPL_AST, initialized |-> 0,
          ev |-> << Ev("spk_init", 0 - 1, NoTime) >>, out |-> NoOut]
    ELSE [flag |-> NO_ERR, initialized |-> 1,
          ev |-> (IF initialized = 0
                  THEN << Ev("spk_init", 0 - 1, NoTime) >> ELSE << >>)
                 \o << Ev("AST_GM", i, NoTime), Ev("spk_calc", i, jde) >>,
          out |-> [body |-> i + N_ephem, t |-> jde, sun |-> NoTime,
                   vel |-> FALSE]]

\* Variant: the Sun is read at every small-body query.
all_ephem_NoSaved(f, i, t) ==
    IF i < N_ephem
    THEN LET e == ephem(f.ephem_initialized, i, t)
         IN  [flag |-> e.flag,
              fac |-> [f EXCEPT !.ephem_initialized = e.initialized],
              ev |-> e.ev, out |-> e.out]
    ELSE LET a  == ast_ephem(f.ast_initialized, i - N_ephem, t)
             f1 == [f EXCEPT !.ast_initialized = a.initialized]
         IN  IF a.flag # NO_ERR
             THEN [flag |-> a.flag, fac |-> f1, ev |-> a.ev, out |-> NoOut]
             ELSE LET e  == ephem(f1.ephem_initialized, 0, t)
                      f2 == [f1 EXCEPT !.ephem_initialized = e.initialized]
                  IN  IF e.flag # NO_ERR
                      THEN [flag |-> e.flag, fac |-> f2, ev |-> a.ev \o e.ev,
                            out |-> NoOut]
                      ELSE [flag |-> NO_ERR,
                            fac |-> [f2 EXCEPT !.t_last = t, !.xs = e.out.t],
                            ev |-> a.ev \o e.ev,
                            out |-> [a.out EXCEPT !.sun = e.out.t]]

\* Variant: the saved Sun state is used whenever there is one.
all_ephem_AnySun(f, i, t) ==
    IF i < N_ephem
    THEN LET e == ephem(f.ephem_initialized, i, t)
         IN  [flag |-> e.flag,
              fac |-> [f EXCEPT !.ephem_initialized = e.initialized],
              ev |-> e.ev, out |-> e.out]
    ELSE LET a  == ast_ephem(f.ast_initialized, i - N_ephem, t)
             f1 == [f EXCEPT !.ast_initialized = a.initialized]
         IN  IF a.flag # NO_ERR
             THEN [flag |-> a.flag, fac |-> f1, ev |-> a.ev, out |-> NoOut]
             ELSE IF f1.t_last = NoTime
             THEN LET e  == ephem(f1.ephem_initialized, 0, t)
                      f2 == [f1 EXCEPT !.ephem_initialized = e.initialized]
                  IN  IF e.flag # NO_ERR
                      THEN [flag |-> e.flag, fac |-> f2, ev |-> a.ev \o e.ev,
                            out |-> NoOut]
                      ELSE [flag |-> NO_ERR,
                            fac |-> [f2 EXCEPT !.t_last = t, !.xs = e.out.t],
                            ev |-> a.ev \o e.ev,
                            out |-> [a.out EXCEPT !.sun = e.out.t]]
             ELSE [flag |-> NO_ERR, fac |-> f1, ev |-> a.ev,
                   out |-> [a.out EXCEPT !.sun = f1.xs]]

all_ephem(f, i, t) ==
    IF i < N_ephem
    THEN LET e == ephem(f.ephem_initialized, i, t)
         IN  [flag |-> e.flag,
              fac |-> [f EXCEPT !.ephem_initialized = e.initialized],
              ev |-> e.ev, out |-> e.out]
    ELSE LET a  == ast_ephem(f.ast_initialized, i - N_ephem, t)
             f1 == [f EXCEPT !.ast_initialized = a.initialized]
         IN  IF a.flag # NO_ERR
             THEN [flag |-> a.flag, fac |-> f1, ev |-> a.ev, out |-> NoOut]
             ELSE IF t # f1.t_last
             THEN LET e  == ephem(f1.ephem_initialized, 0, t)
                      f2 == [f1 EXCEPT !.ephem_initialized = e.initialized]
                  IN  IF e.flag # NO_ERR
                      THEN [flag |-> e.flag, fac |-> f2, ev |-> a.ev \o e.ev,
                            out |-> NoOut]
                      ELSE [flag |-> NO_ERR,
                            fac |-> [f2 EXCEPT !.t_last = t, !.xs = e.out.t],
                            ev |-> a.ev \o e.ev,
                            out |-> [a.out EXCEPT !.sun = e.out.t]]
             ELSE [flag |-> NO_ERR, fac |-> f1, ev |-> a.ev,
                   out |-> [a.out EXCEPT !.sun = f1.xs]]

NoQuery == [i |-> 0, t |-> NoTime, flag |-> NO_ERR, ev |-> << >>,
            out |-> NoOut, asked |-> FALSE, jpl |-> FALSE, spk |-> FALSE,
            t_last |-> NoTime, again |-> FALSE]

----------------------------------------------------------------------------
(* Session state before any call *)

NoArgs == [tend |-> 0, tstep |-> 1, geocentric |-> 0, n_particles |-> 1,
           n_var |-> 0, n_alloc |-> 0]

NoSim == [t |-> 0, dt |-> 1, dt_last_done |-> 0, steps_done |-> 0,
          status |-> "REB_RUNNING", messages |-> << >>, failed |-> {},
          N |-> 0, N_var |-> 0, x |-> 0, a |-> NoTime, br |-> 0,
          ap |-> [c_set |-> FALSE, geo_set |-> FALSE, geocentric |-> 0]]

NoTs == [n_alloc |-> 0, n_particles |-> 0, last_state |-> << >>]

\* What integration_function and the recorder allocate, and the caller's two
\* output buffers.
Owned == {"ts", "last_state", "x0", "v0", "a0", "sim", "rebx"}

Callers == {"outtime", "outstate"}

NoKern == [pc |-> "idle"]

Allocs == Owned \cup Callers

Init ==
    /\ fac = [ephem_initialized |-> 0, ast_initialized |-> 0,
              t_last |-> NoTime, xs |-> NoTime]
    /\ last_steps_done = 0
    /\ jpl_file \in BOOLEAN
    /\ spk_file \in BOOLEAN
    /\ env_changed = FALSE
    /\ called = FALSE
    /\ q = NoQuery
    /\ pc = "idle"
    /\ args = NoArgs
    /\ r = NoSim
    /\ ts = NoTs
    /\ outtime = << >>
    /\ outstate = << >>
    /\ heap = [p \in Allocs |-> "none"]
    /\ mallocs = [p \in Allocs |-> 0]
    /\ frees = [p \in Allocs |-> 0]
    /\ uaf = FALSE
    /\ n_out = 0
    /\ status = "REB_RUNNING"
    /\ kern = NoKern

----------------------------------------------------------------------------
(* Direct use of the facade *)

QueryTimes == { Time(t, 0, 0) : t \in 0 .. MaxT }

FacadeQuery(i, t) ==
    /\ pc = "idle"
    /\ LET res == all_ephem(fac, i, t)
       IN  /\ fac' = res.fac
           /\ q' = [i |-> i, t |-> t, flag |-> res.flag, ev |-> res.ev,
                    out |-> res.out, asked |-> TRUE,
                    jpl |-> jpl_file \/ fac.ephem_initialized = 1,
                    spk |-> spk_file \/ fac.ast_initialized = 1,
                    t_last |-> fac.t_last,
                    again |-> q.asked /\ q.flag = NO_ERR /\ q.i = i
                              /\ q.t = t]
    /\ UNCHANGED << last_steps_done, jpl_file, spk_file, env_changed, called,
                    session, kern >>

EnvChange ==
    /\ pc = "idle"
    /\ \/ jpl_file' = ~jpl_file /\ spk_file' = spk_file
       \/ spk_file' = ~spk_file /\ jpl_file' = jpl_file
    /\ env_changed' = TRUE
    /\ UNCHANGED << fac, last_steps_done, called, q, session, kern >>

----------------------------------------------------------------------------
(* The force routine: its ephemeris look-ups and its error reports *)

reb_error(messages, msg) ==
    IF Len(messages) = reb_max_messages_N
    THEN Append(Tail(messages), msg)
    ELSE Append(messages, msg)

Look(i, site) == [i |-> i, site |-> site]

\* The Einstein-Infeld-Hoffmann block, per real particle: body j = 0, then
\* every planetary body k.
EihLookups == << Look(0, "") >> \o [k \in 1 .. N_ephem |-> Look(k - 1, "")]

Lookups(geo, N_real) ==
    (IF geo = 1 THEN << Look(3, "a") >> ELSE << >>)
    \o [k \in 1 .. N_tot |-> Look(k - 1, "b")]
    \o [k \in 1 .. N_tot |-> Look(k - 1, "c")]
    \o << Look(3, ""), Look(0, ""), Look(0, "") >>
    \o [k \in 1 .. N_real * Len(EihLookups) |->
           EihLookups[((k - 1) % Len(EihLookups)) + 1]]
    \o (IF geo = 1 THEN << Look(3, "") >> ELSE << >>)

\* Variant: only the geocentric look-up at the head of the routine tests
\* the flag.
Reported_OnlyGeo(site, flag) == site = "a" /\ flag # NO_ERR

Reported(site, flag) == site # "" /\ flag # NO_ERR

\* One look-up of the routine: the facade call and, at the sites that test
\* the flag, the error report.
Lookup(st, l, t) ==
    LET res == all_ephem(st.fac, l.i, t)
    IN  [fac |-> res.fac,
         messages |-> IF Reported(l.site, res.flag)
                      THEN reb_error(st.messages,
                               [site |-> l.site, i |-> l.i, flag |-> res.flag])
                      ELSE st.messages,
         failed |-> IF res.flag # NO_ERR
                    THEN st.failed \cup {res.flag} ELSE st.failed,
         bad |-> \/ st.bad
                 \/ res.flag # NO_ERR
                 \/ (l.i >= N_ephem /\ res.out.sun # t)]

\* Look-ups L[lo..hi] in order: the first half, then the second half from
\* the state the first half left.
RECURSIVE LookupAll(_, _, _, _, _)
LookupAll(st, L, lo, hi, t) ==
    IF lo > hi THEN st
    ELSE IF lo = hi THEN Lookup(st, L[lo], t)
    ELSE LET mid == (lo + hi) \div 2
         IN  CHOOSE out \in { LookupAll(left, L, mid + 1, hi, t) :
                                left \in { LookupAll(st, L, lo, mid, t) } } : TRUE

rebx_ephemeris_forces(m, N_real, t) ==
    IF ~m.r.ap.c_set
    THEN [m EXCEPT !.r.messages =
              reb_error(@, [site |-> "noc", i |-> 0, flag |-> NO_ERR])]
    ELSE IF ~m.r.ap.geo_set
    THEN [m EXCEPT !.r.messages =
              reb_error(@, [site |-> "nogeo", i |-> 0, flag |-> NO_ERR])]
    ELSE LET L   == Lookups(m.r.ap.geocentric, N_real)
             res == LookupAll([fac |-> m.fac, messages |-> m.r.messages,
                               failed |-> m.r.failed, bad |-> FALSE],
                              L, 1, Len(L), t)
         IN  [m EXCEPT !.fac = res.fac, !.r.messages = res.messages,
                       !.r.failed = res.failed,
                       !.r.a = IF res.bad THEN Garbage ELSE t]

reb_update_acceleration(m) ==
    rebx_ephemeris_forces(m, m.r.N - m.r.N_var, Time(m.r.t, 0, 0))

----------------------------------------------------------------------------
(* Heap bookkeeping *)

Use(m, p) == IF m.heap[p] = "live" THEN m ELSE [m EXCEPT !.uaf = TRUE]

Malloc(m, p) == [m EXCEPT !.heap[p] = "live", !.mallocs[p] = @ + 1]

Free(m, p) ==
    [m EXCEPT !.heap[p] = "freed", !.frees[p] = @ + 1,
              !.uaf = @ \/ m.heap[p] # "live"]

----------------------------------------------------------------------------
(* Output buffers *)

Put(buf, idx, val) ==
    IF idx \in DOMAIN buf
    THEN [buf EXCEPT ![idx] = [val |-> val, n |-> @.n + 1]]
    ELSE (idx :> [val |-> val, n |-> 1]) @@ buf

\* The writes W[lo..hi] in order.
RECURSIVE PutAll(_, _, _, _)
PutAll(buf, W, lo, hi) ==
    IF lo > hi THEN buf
    ELSE IF lo = hi THEN Put(buf, W[lo].idx, W[lo].val)
    ELSE LET mid == (lo + hi) \div 2
         IN  CHOOSE out \in { PutAll(left, W, mid + 1, hi) :
                                left \in { PutAll(buf, W, lo, mid) } } : TRUE

Wr(idx, val) == [idx |-> idx, val |-> val]

\* The value store_function computes for component c of particle j at
\* sub-node n: x0/v0 and a0 are the cached start-of-step values, br the
\* coefficients of the last completed step, dt that step's length.
Cell(j, c, n, x0, a0, br, dt) ==
    [j |-> j, c |-> c, n |-> n, x0 |-> x0, a0 |-> a0, br |-> br, dt |-> dt]

\* A particle's own current component, as written at step 0.
Own(j, c, x) == Cell(j, c, 0, x, NoTime, 0, 0)

Uninit == [t |-> NoTime, x |-> 0 - 1, a |-> NoTime]

----------------------------------------------------------------------------
(* store_function, store_last_state, heartbeat *)

\* Variant: the test lets one more step through.
BufferExhausted_Late(n_alloc, step) == (n_alloc - step) < 0

\* Variant: the test counts the remaining rows instead of the remaining steps.
BufferExhausted_Rows(n_alloc, step) == (n_alloc * nsub - step) < 1

BufferExhausted(n_alloc, step) == (n_alloc - step) < 1

\* Variant: at step 0 nothing is written to the output.
StoreInitial_Skip(m) ==
    [m EXCEPT !.ts.last_state =
        [j \in 0 .. m.r.N - 1 |-> [@[j] EXCEPT !.t = Time(m.r.t, 0, 0)]]]

StoreInitial(m) ==
    LET N == m.r.N
    IN  [m EXCEPT
          !.outtime = Put(@, 0, hg_den * m.r.t),
          !.ts.last_state =
              [j \in 0 .. N - 1 |-> [@[j] EXCEPT !.t = Time(m.r.t, 0, 0)]],
          !.outstate = PutAll(@, [k \in 1 .. 6 * N |->
                                    Wr(k - 1, Own((k - 1) \div 6, ((k - 1) % 6),
                                                  m.r.x))], 1, 6 * N)]

\* Variant: the step length is not taken back from the end of the step.
SampleStamp_NoBack(t, dt, n) == hg_den * t + dt * hg_num(n)

\* Line 1974: r->t + r->dt_last_done * (-1.0 + hg[n]), in units of 1/hg_den.
SampleStamp(t, dt, n) == hg_den * t + dt * (hg_num(n) - hg_den)

SampleTime(m, n) == SampleStamp(m.r.t, m.r.dt_last_done, n)

\* Variant: particles are laid out three doubles apart.
SampleOffset_Stride(step, n, N, j) == ((step - 1) * nsub + n) * 6 * N + 3 * j

SampleOffset(step, n, N, j) == ((step - 1) * nsub + n) * 6 * N + 6 * j

SampleWrites(m, n) ==
    LET N    == m.r.N
        step == m.r.steps_done
        ls   == m.ts.last_state
    IN  [k \in 1 .. 3 * N |->
            LET j == (k - 1) \div 3
                c == (k - 1) % 3
            IN  Wr(SampleOffset(step, n, N, j) + c,
                   Cell(j, c, n, ls[j].x, ls[j].a, m.r.br, m.r.dt_last_done))]
        \o
        [k \in 1 .. 3 * N |->
            LET j == (k - 1) \div 3
                c == 3 + ((k - 1) % 3)
            IN  Wr(SampleOffset(step, n, N, j) + c,
                   Cell(j, c, n, ls[j].x, ls[j].a, m.r.br, m.r.dt_last_done))]

StoreNode(m, n, time_offset) ==
    [m EXCEPT !.outtime = Put(@, time_offset, SampleTime(m, n)),
              !.outstate = PutAll(@, SampleWrites(m, n), 1, 6 * m.r.N)]

\* Variant: the loop over the sub-nodes stops one short.
RECURSIVE StoreNodes_Short(_, _, _)
StoreNodes_Short(m, n, time_offset) ==
    IF n >= nsub THEN m
    ELSE CHOOSE out \in { StoreNodes_Short(m1, n + 1, time_offset + 1) :
                            m1 \in { StoreNode(m, n, time_offset) } } : TRUE

RECURSIVE StoreNodes(_, _, _)
StoreNodes(m, n, time_offset) ==
    IF n >= nsub + 1 THEN m
    ELSE CHOOSE out \in { StoreNodes(m1, n + 1, time_offset + 1) :
                            m1 \in { StoreNode(m, n, time_offset) } } : TRUE

\* Variant: the acceleration scratch array is not freed.
StoreSamples_Leak(m) ==
    LET m1 == Malloc(Malloc(Malloc(m, "x0"), "v0"), "a0")
        m2 == StoreNodes(m1, 1, (m.r.steps_done - 1) * nsub + 1)
    IN  Free(Free(m2, "x0"), "v0")

StoreSamples(m) ==
    LET m1 == Malloc(Malloc(Malloc(m, "x0"), "v0"), "a0")
        m2 == StoreNodes(m1, 1, (m.r.steps_done - 1) * nsub + 1)
    IN  Free(Free(Free(m2, "x0"), "v0"), "a0")

\* Variant: the static counter is brought up to date only where samples are
\* stored.
store_function_StaleCounter(m0) ==
    LET m    == Use(Use(Use(Use(m0, "ts"), "last_state"), "outtime"),
                    "outstate")
        step == m.r.steps_done
        m2   == IF step = 0 THEN StoreInitial(m)
                ELSE IF m.r.steps_done > m.last_steps_done
                THEN [StoreSamples(m) EXCEPT
                         !.last_steps_done = m.r.steps_done]
                ELSE m
    IN  IF BufferExhausted(m.ts.n_alloc, step)
        THEN [m2 EXCEPT !.r.status = "REB_EXIT_USER"]
        ELSE m2

\* Variant: the recorder never asks the driver to stop.
store_function_NoSignal(m0) ==
    LET m    == Use(Use(Use(Use(m0, "ts"), "last_state"), "outtime"),
                    "outstate")
        step == m.r.steps_done
        m1   == IF step = 0 THEN StoreInitial(m)
                ELSE IF m.r.steps_done > m.last_steps_done
                THEN StoreSamples(m)
                ELSE m
    IN  [m1 EXCEPT !.last_steps_done = m.r.steps_done]

\* Variant: the samples are stored whether or not a step was completed
\* since the heartbeat before.
store_function_EveryBeat(m0) ==
    LET m    == Use(Use(Use(Use(m0, "ts"), "last_state"), "outtime"),
                    "outstate")
        step == m.r.steps_done
        m1   == IF step = 0 THEN StoreInitial(m) ELSE StoreSamples(m)
        m2   == [m1 EXCEPT !.last_steps_done = m.r.steps_done]
    IN  IF BufferExhausted(m.ts.n_alloc, step)
        THEN [m2 EXCEPT !.r.status = "REB_EXIT_USER"]
        ELSE m2

store_function(m0) ==
    LET m    == Use(Use(Use(Use(m0, "ts"), "last_state"), "outtime"),
                    "outstate")
        step == m.r.steps_done
        m1   == IF step = 0 THEN StoreInitial(m)
                ELSE IF m.r.steps_done > m.last_steps_done
                THEN StoreSamples(m)
                ELSE m
        m2   == [m1 EXCEPT !.last_steps_done = m.r.steps_done]
    IN  IF BufferExhausted(m.ts.n_alloc, step)
        THEN [m2 EXCEPT !.r.status = "REB_EXIT_USER"]
        ELSE m2

store_last_state(m0) ==
    LET m == Use(Use(m0, "ts"), "last_state")
    IN  [m EXCEPT !.ts.last_state =
            [j \in 0 .. m.r.N - 1 |->
                [t |-> Time(m.r.t, 0, 0), x |-> m.r.x, a |-> m.r.a]]]

\* Variant: the cache is refreshed before the recorder reads it.
heartbeat_RefreshFirst(m) ==
    store_function(store_last_state(reb_update_acceleration(m)))

heartbeat(m) == store_last_state(reb_update_acceleration(store_function(m)))

----------------------------------------------------------------------------
(* The integrator driver (REBOUND's reb_integrate) *)

Exited == {"REB_EXIT_SUCCESS", "REB_EXIT_ERROR", "REB_EXIT_USER"}

reb_error_message_waiting(rr) == Len(rr.messages) > 0

reb_check_exit(rr, tmax) ==
    LET s == IF reb_error_message_waiting(rr)
             THEN "REB_EXIT_ERROR" ELSE rr.status
    IN  IF s \in Exited THEN [rr EXCEPT !.status = s]
        ELSE IF rr.t + rr.dt >= tmax
        THEN IF rr.t = tmax
             THEN [rr EXCEPT !.status = "REB_EXIT_SUCCESS"]
             ELSE [rr EXCEPT !.status = "REB_RUNNING_LAST_STEP",
                             !.dt = tmax - rr.t]
        ELSE [rr EXCEPT !.status = "REB_RUNNING"]

RadauNodes == 7

RECURSIVE EvalNodes(_, _)
EvalNodes(m, n) ==
    IF n > RadauNodes THEN m
    ELSE CHOOSE out \in { EvalNodes(m1, n + 1) :
               m1 \in { rebx_ephemeris_forces(m, m.r.N - m.r.N_var,
                                              Time(m.r.t, m.r.dt, n)) } } : TRUE

reb_step(m) ==
    LET m1 == EvalNodes(m, 0)
    IN  [m1 EXCEPT !.r.t = @ + m.r.dt,
                   !.r.dt_last_done = m.r.dt,
                   !.r.steps_done = @ + 1,
                   !.r.x = @ + 1,
                   !.r.br = m.r.steps_done + 1]

----------------------------------------------------------------------------
(* integration_function *)

Machine ==
    [r |-> r, ts |-> ts, fac |-> fac, last_steps_done |-> last_steps_done,
     outtime |-> outtime, outstate |-> outstate, heap |-> heap,
     mallocs |-> mallocs, frees |-> frees, uaf |-> uaf]

Commit(m) ==
    /\ r' = m.r
    /\ ts' = m.ts
    /\ fac' = m.fac
    /\ last_steps_done' = m.last_steps_done
    /\ outtime' = m.outtime
    /\ outstate' = m.outstate
    /\ heap' = m.heap
    /\ mallocs' = m.mallocs
    /\ frees' = m.frees
    /\ uaf' = m.uaf

\* Time is counted in units of the suggested step tstep; the integrator's
\* step-size control is outside the model, so every step has that length.
ArgSet ==
    [tend : 0 .. MaxT, tstep : {1}, geocentric : {0, 1},
     n_particles : 1 .. MaxReal, n_var : 0 .. MaxVar, n_alloc : 0 .. MaxAlloc]

\* Lines 1688-1781: build the simulation, attach the force and its
\* parameters, allocate the timestate and the start-of-step cache.
Setup(a) ==
    LET N  == a.n_particles + a.n_var
        m0 == [Machine EXCEPT
                 !.heap = [p \in Allocs |->
                              IF p \in Callers THEN "live" ELSE "none"],
                 !.mallocs = [p \in Allocs |-> 0],
                 !.frees = [p \in Allocs |-> 0],
                 !.uaf = FALSE,
                 !.outtime = << >>,
                 !.outstate = << >>]
        m1 == Malloc(Malloc(m0, "sim"), "rebx")
        m2 == Malloc(m1, "ts")
        m3 == [m2 EXCEPT
                 !.r = [t |-> 0, dt |-> a.tstep, dt_last_done |-> 0,
                        steps_done |-> 0, status |-> "REB_RUNNING",
                        messages |-> << >>, failed |-> {}, N |-> N,
                        N_var |-> a.n_var,
                        x |-> 0, a |-> NoTime, br |-> 0,
                        ap |-> [c_set |-> TRUE, geo_set |-> TRUE,
                                geocentric |-> a.geocentric]],
                 !.ts = [n_alloc |-> a.n_alloc,
                         n_particles |-> a.n_particles,
                         last_state |-> [j \in 0 .. N - 1 |-> Uninit]]]
    IN  Malloc(m3, "last_state")

\* integration_function from its entry through reb_integrate's first
\* heartbeat (reb_integrate sets the status to running and calls the
\* heartbeat before it looks at the time).
reb_integrate_start(m) == heartbeat([m EXCEPT !.r.status = "REB_RUNNING"])

integration_function_call(a) ==
    /\ pc = "idle"
    /\ pc' = "loop"
    /\ args' = a
    /\ Commit(reb_integrate_start(Setup(a)))
    /\ UNCHANGED << jpl_file, spk_file, env_changed, called, q, n_out,
                    status, kern >>

\* One turn of reb_integrate's loop: reb_step, then the heartbeat.
reb_integrate_step ==
    /\ pc = "loop"
    /\ LET rr == reb_check_exit(r, args.tend)
       IN  /\ rr.status \notin Exited
           /\ Commit(heartbeat(reb_step([Machine EXCEPT !.r = rr])))
    /\ UNCHANGED << pc, jpl_file, spk_file, env_changed, called, q, args,
                    n_out, status, kern >>

\* Lines 1792-1821: reb_integrate returns; report and release.
Teardown(m) ==
    LET m1 == Use(m, "ts")
        m2 == Free(m1, "ts")
        m3 == Free(m2, "last_state")
    IN  Free(Free(m3, "sim"), "rebx")

integration_function_return ==
    /\ pc = "loop"
    /\ LET rr == reb_check_exit(r, args.tend)
       IN  /\ rr.status \in Exited
           /\ n_out' = rr.steps_done
           /\ status' = rr.status
           /\ Commit(Teardown([Machine EXCEPT !.r = rr]))
    /\ pc' = "returned"
    /\ UNCHANGED << jpl_file, spk_file, env_changed, called, q, args, kern >>

\* The caller takes the outputs; the process goes on with its statics.
caller_continues ==
    /\ pc = "returned"
    /\ pc' = "idle"
    /\ args' = NoArgs
    /\ r' = NoSim
    /\ ts' = NoTs
    /\ outtime' = << >>
    /\ outstate' = << >>
    /\ heap' = [p \in Allocs |-> "none"]
    /\ mallocs' = [p \in Allocs |-> 0]
    /\ frees' = [p \in Allocs |-> 0]
    /\ uaf' = FALSE
    /\ n_out' = 0
    /\ status' = "REB_RUNNING"
    /\ called' = TRUE
    /\ UNCHANGED << fac, last_steps_done, jpl_file, spk_file, env_changed, q,
                    kern >>

Next ==
    \/ \E a \in ArgSet : integration_function_call(a)
    \/ reb_integrate_step
    \/ integration_function_return
    \/ caller_continues
    \/ EnvChange

Spec == Init /\ [][Next]_vars

NextFacade ==
    \/ \E i \in (0 - 2) .. (N_tot + 1), t \in QueryTimes : FacadeQuery(i, t)
    \/ EnvChange

SpecFacade == Init /\ [][NextFacade]_vars

----------------------------------------------------------------------------
(* Particle set-up of integration_function *)

\* A particle is named by where its six state components were copied from:
\* instate[6i .. 6i+5], invar[6i .. 6i+5], or the zero particle that
\* reb_add_var_1st_order appends.
Particle(from, i) == [from |-> from, i |-> i]

NoParticles == [particles |-> << >>, var_config |-> << >>]

\* C index idx of the particle array.
At(particles, idx) == particles[idx + 1]

reb_add(sim, p) == [sim EXCEPT !.particles = Append(@, p)]

\* For testparticle >= 0: a new variational configuration whose index is the
\* current particle count, and one zero particle at that index.
reb_add_var_1st_order(sim, testparticle) ==
    LET index == Len(sim.particles)
        s1    == [sim EXCEPT !.var_config =
                     Append(@, [index |-> index,
                                testparticle |-> testparticle])]
    IN  [sim |-> reb_add(s1, Particle("zero", 0)), index |-> index]

RECURSIVE AddReals(_, _, _)
AddReals(sim, i, n_particles) ==
    IF i >= n_particles THEN sim
    ELSE AddReals(reb_add(sim, Particle("instate", i)), i + 1, n_particles)

\* Variant: the variation is bound to the particle of its own number.
AddVar_OwnNumber(sim, i, invar_part) ==
    LET v == reb_add_var_1st_order(sim, i)
    IN  [v.sim EXCEPT !.particles[v.index + 1] = Particle("invar", i)]

\* Iteration i of the loop over the variational particles.
AddVar(sim, i, invar_part) ==
    LET v == reb_add_var_1st_order(sim, invar_part[i + 1])
    IN  [v.sim EXCEPT !.particles[v.index + 1] = Particle("invar", i)]

RECURSIVE AddVars(_, _, _)
AddVars(sim, i, invar_part) ==
    IF i >= Len(invar_part) THEN sim
    ELSE AddVars(AddVar(sim, i, invar_part), i + 1, invar_part)

AddParticles(n_particles, invar_part) ==
    AddVars(AddReals(NoParticles, 0, n_particles), 0, invar_part)

----------------------------------------------------------------------------
(* Values the force terms work with *)

\* A GM constant by its digits as written in the source: the first eight
\* significant digits, the following ones, and the decimal exponent.
Digits(hi, lo, e) == [hi |-> hi, lo |-> lo, e |-> e]

JPL_GM ==
    << Digits(29591220, 82841196, 0 - 3),  Digits(49125001, 94889318, 0 - 10),
       Digits(72434523, 32644119, 0 - 9),  Digits(88876924, 46707102, 0 - 9),
       Digits(10931894, 62402435, 0 - 10), Digits(95495488, 29725812, 0 - 10),
       Digits(28253458, 25225792, 0 - 6),  Digits(84597059, 93376290, 0 - 7),
       Digits(12920265, 64968240, 0 - 7),  Digits(15243573, 47885194, 0 - 7),
       Digits(21750964, 64893358, 0 - 11) >>

AST_GM ==
    << Digits(32191392, 75878588, 0 - 15),  Digits(13964518, 123081070, 0 - 13),
       Digits(20917175, 955133682, 0 - 15), Digits(86836253, 492286545, 0 - 15),
       Digits(45107799, 51436795, 0 - 15),  Digits(24067012, 218937576, 0 - 15),
       Digits(59824315, 264869841, 0 - 15), Digits(12542530, 761640810, 0 - 14),
       Digits(63110343, 420878887, 0 - 15), Digits(25416014, 973471498, 0 - 15),
       Digits(42823439, 677995011, 0 - 15), Digits(30471146, 330043200, 0 - 14),
       Digits(35445002, 842488978, 0 - 15), Digits(48345606, 546105521, 0 - 15),
       Digits(26529436, 610356353, 0 - 15), Digits(38548000, 225257904, 0 - 14) >>

\* The constant of the Earth J2/J4 block.
GMearth == Digits(88876924, 45125634, 0 - 9)

NoGM == Digits(0, 0, 0)

\* What a successful query of body i stores through its GM pointer.
GMof(i) == IF i < N_ephem THEN JPL_GM[i + 1] ELSE AST_GM[i - N_ephem + 1]

\* Vectors have integer components.
Plus(a, b) == << a[1] + b[1], a[2] + b[2], a[3] + b[3] >>

Minus(a, b) == << a[1] - b[1], a[2] - b[2], a[3] - b[3] >>

Dot(a, b) == a[1] * b[1] + a[2] * b[2] + a[3] * b[3]

Zero3 == << 0, 0, 0 >>

\* The readers' answers at the evaluation time: barycentric position of
\* planetary body i, heliocentric position of small body i (global index).
Bary(i) == << i + 1, 2 * i, 1 >>

Helio(i) == << i, 1, i - 10 >>

\* Coordinates of real particle j in the frame of the run.  With "close"
\* particle 0 sits exactly on body 5.
RealPos(in, j) ==
    IF in.close /\ j = 0
    THEN Minus(Bary(5), IF in.geocentric = 1 THEN Bary(3) ELSE Zero3)
    ELSE << 0 - (j + 1), j + 2, 3 >>

\* Displacement carried by the variational particle set from invar[6k..].
VarPos(k) == << 1, k + 2, 0 - 3 >>

\* The evaluation time.
EvalTime == Time(0, 0, 0)

----------------------------------------------------------------------------
(* The force routine term by term *)

\* An output slot of a facade call: the vector written, whether it is the
\* state of the body asked for, and that body.
Slot(v, ok, body) == [v |-> v, ok |-> ok, body |-> body]

Unset == Slot(Zero3, FALSE, 0 - 1)

\* all_ephem writes nothing when it fails early; when the small body was
\* read but the Sun was not, GM and the heliocentric position stay in the
\* outputs.
HalfWritten(i, flag) ==
    i >= N_ephem /\ i < N_tot /\ flag \in {ERR_JPL_EPHEM, ERR_NEPH}

Filled(prev, i, flag) ==
    IF flag = NO_ERR
    THEN Slot(IF i < N_ephem THEN Bary(i) ELSE Plus(Helio(i), Bary(0)),
              TRUE, i)
    ELSE IF HalfWritten(i, flag) THEN Slot(Helio(i), FALSE, i)
    ELSE [prev EXCEPT !.ok = FALSE]

\* One term added to a particle's acceleration.  num is the vector part
\* multiplied by |d|^pow, so that it is an integer vector; the term is not
\* finite when r2 = 0.
Contrib(term, sign, gm, body, num, pow, r2, ok) ==
    [term |-> term, sign |-> sign, gm |-> gm, body |-> body, num |-> num,
     pow |-> pow, r2 |-> r2, ok |-> ok]

Symbolic(term, sign, gm, body, ok) ==
    Contrib(term, sign, gm, body, Zero3, 0, 1, ok)

\* A term whose value is not worked out, with the position d of the real
\* particle relative to the reference body at which it is evaluated.
SymbolicAt(term, sign, gm, body, d, ok) ==
    Contrib(term, sign, gm, body, d, 0, 1, ok)

Add(acc, idx, c) == [acc EXCEPT ![idx + 1] = Append(@, c)]

\* A call of all_ephem(i, t, &GM, &slot...) and the error report of its
\* site.  The EIH block passes its own GMj/GMk.
Fetch(ks, i, site, slot) ==
    LET res == all_ephem(ks.fac, i, EvalTime)
        wr  == res.flag = NO_ERR \/ HalfWritten(i, res.flag)
        k1  == [ks EXCEPT
                  !.fac = res.fac,
                  !.ev = @ \o res.ev,
                  !.messages = IF Reported(site, res.flag)
                               THEN reb_error(@, [site |-> site, i |-> i,
                                                  flag |-> res.flag])
                               ELSE @,
                  !.GM = IF slot # "eih" /\ wr
                         THEN [val |-> GMof(i), ok |-> res.flag = NO_ERR]
                         ELSE IF slot # "eih" THEN [@ EXCEPT !.ok = FALSE]
                         ELSE @]
    IN  CASE slot = "o" -> [k1 EXCEPT !.o = Filled(@, i, res.flag)]
          [] slot = "x" -> [k1 EXCEPT !.x = Filled(@, i, res.flag)]
          [] slot = "e" -> [k1 EXCEPT !.r = Filled(@, i, res.flag)]
          [] slot = "r" -> [k1 EXCEPT !.r = Filled(@, i, res.flag),
                                      !.GMsun = k1.GM]
          [] slot = "s" -> [k1 EXCEPT !.s = Filled(@, i, res.flag)]
          [] OTHER      -> k1

\* Variant: a term that is not finite is reported with its particle.
direct_force_Checked(ks, in, j) ==
    LET d      == Plus(RealPos(in, j), Minus(ks.o.v, ks.x.v))
        r2     == Dot(d, d)
    IN  [ks EXCEPT !.acc =
            Add(@, j, Contrib("direct", 0 - 1, ks.GM.val, ks.x.body, d, 3, r2,
                              ks.GM.ok /\ ks.x.ok /\ ks.o.ok)),
                   !.messages =
            IF r2 = 0
            THEN reb_error(@, [site |-> "direct", i |-> j, flag |-> NO_ERR])
            ELSE @]

\* Lines 403-417: real particle j under the body in the locals.
direct_force(ks, in, j) ==
    LET d      == Plus(RealPos(in, j), Minus(ks.o.v, ks.x.v))
        r2     == Dot(d, d)
    IN  [ks EXCEPT !.acc =
            Add(@, j, Contrib("direct", 0 - 1, ks.GM.val, ks.x.body, d, 3, r2,
                              ks.GM.ok /\ ks.x.ok /\ ks.o.ok))]

\* Variant: the off-diagonal coefficient dydz is taken for dxdz.
Jacobian_Swapped(d, r2) ==
    LET r3inv == r2
        r5inv == (3 * r3inv) \div r2
        dxdx  == d[1] * d[1] * r5inv - r3inv
        dydy  == d[2] * d[2] * r5inv - r3inv
        dzdz  == d[3] * d[3] * r5inv - r3inv
        dxdy  == d[1] * d[2] * r5inv
        dxdz  == d[2] * d[3] * r5inv
        dydz  == d[2] * d[3] * r5inv
    IN  << << dxdx, dxdy, dxdz >>, << dxdy, dydy, dydz >>,
           << dxdz, dydz, dzdz >> >>

\* Lines 447-455, every quantity in units of |d|^-5: r3inv is r2, r5inv is
\* 3*r3inv/r2.  The rows are the coefficients of dax, day, daz.
Jacobian(d, r2) ==
    LET r3inv == r2
        r5inv == (3 * r3inv) \div r2
        dxdx  == d[1] * d[1] * r5inv - r3inv
        dydy  == d[2] * d[2] * r5inv - r3inv
        dzdz  == d[3] * d[3] * r5inv - r3inv
        dxdy  == d[1] * d[2] * r5inv
        dxdz  == d[1] * d[3] * r5inv
        dydz  == d[2] * d[3] * r5inv
    IN  << << dxdx, dxdy, dxdz >>, << dxdy, dydy, dydz >>,
           << dxdz, dydz, dzdz >> >>

\* Lines 477-479.
MatVec(M, dd) == << Dot(dd, M[1]), Dot(dd, M[2]), Dot(dd, M[3]) >>

\* The coordinates of the particle at C index idx.
Coords(sim, idx) ==
    LET p == At(sim.particles, idx)
    IN  IF p.from = "invar" THEN VarPos(p.i) ELSE Zero3

\* Variant: the configuration number is taken for the particle index.
RECURSIVE Children_ByNumber(_, _, _, _, _)
Children_ByNumber(acc, sim, j, v, c) ==
    IF v >= Len(sim.var_config) THEN acc
    ELSE LET vc == sim.var_config[v + 1]
         IN  Children_ByNumber(IF vc.testparticle = j
                               THEN Add(acc, v, [c EXCEPT !.num =
                                           IF c.pow = 5
                                           THEN MatVec(c.num, Coords(sim, v))
                                           ELSE c.num])
                               ELSE acc,
                               sim, j, v + 1, c)

\* Variant: the test of the parent is dropped.
RECURSIVE Children_All(_, _, _, _, _)
Children_All(acc, sim, j, v, c) ==
    IF v >= Len(sim.var_config) THEN acc
    ELSE LET vc == sim.var_config[v + 1]
         IN  Children_All(Add(acc, vc.index, [c EXCEPT !.num =
                                  IF c.pow = 5
                                  THEN MatVec(c.num, Coords(sim, vc.index))
                                  ELSE c.num]),
                          sim, j, v + 1, c)

\* The loop over var_config inside the iteration of real particle j: the
\* configurations v..var_config_N-1 whose testparticle is j get term c(vc).
RECURSIVE Children(_, _, _, _, _)
Children(acc, sim, j, v, c) ==
    IF v >= Len(sim.var_config) THEN acc
    ELSE LET vc == sim.var_config[v + 1]
         IN  Children(IF vc.testparticle = j
                      THEN Add(acc, vc.index, [c EXCEPT !.num =
                                  IF c.pow = 5
                                  THEN MatVec(c.num, Coords(sim, vc.index))
                                  ELSE c.num])
                      ELSE acc,
                      sim, j, v + 1, c)

\* Lines 440-490: the variational particles of real particle j under the
\* body in the locals.
direct_variational(ks, in, sim, j) ==
    LET d  == Plus(RealPos(in, j), Minus(ks.o.v, ks.x.v))
        r2 == Dot(d, d)
        J  == IF r2 = 0 THEN << Zero3, Zero3, Zero3 >> ELSE Jacobian(d, r2)
    IN  [ks EXCEPT !.acc =
            Children(@, sim, j, 0,
                     Contrib("direct_var", 1, ks.GM.val, ks.x.body, J, 5, r2,
                             ks.GM.ok /\ ks.x.ok /\ ks.o.ok))]

\* Lines 538-657: Earth J2/J4 on real particle j and on its variational
\* particles, with the constant of line 514, at the position of j relative
\* to the Earth (lines 541-543).
earth_J2J4(ks, in, sim, j) ==
    LET d  == Plus(RealPos(in, j), Minus(ks.o.v, ks.r.v))
        ok == ks.o.ok /\ ks.r.ok
        a1 == Add(ks.acc, j, SymbolicAt("earth_J2J4", 1, GMearth, 3, d, ok))
    IN  [ks EXCEPT !.acc =
            Children(a1, sim, j, 0,
                     SymbolicAt("earth_J2J4_var", 1, GMearth, 3, d, ok))]

\* Lines 688-781: solar J2 with GMsun, at the position of j relative to
\* the Sun (lines 691-693).
solar_J2(ks, in, sim, j) ==
    LET d  == Plus(RealPos(in, j), Minus(ks.o.v, ks.r.v))
        ok == ks.GMsun.ok /\ ks.o.ok /\ ks.r.ok
        a1 == Add(ks.acc, j, SymbolicAt("solar_J2", 1, ks.GMsun.val, 0, d, ok))
    IN  [ks EXCEPT !.acc =
            Children(a1, sim, j, 0,
                     SymbolicAt("solar_J2_var", 1, ks.GMsun.val, 0, d, ok))]

\* Variant: the relativistic term is computed from the acceleration the
\* particle has accumulated.
solar_GR_FromAcceleration(ks, in, sim, j) ==
    LET d  == Plus(RealPos(in, j), Minus(ks.o.v, ks.s.v))
        ok == ks.GMsun.ok /\ ks.o.ok /\ ks.s.ok
        a1 == Add(ks.acc, j,
                  Contrib("solar_GR", 1, ks.GMsun.val, 0, d, 0,
                          1 + Len(ks.acc[j + 1]), ok))
    IN  [ks EXCEPT !.acc =
            Children(a1, sim, j, 0,
                     SymbolicAt("solar_GR_var", 1, ks.GMsun.val, 0, d, ok))]

\* Lines 986-1079: the relativistic correction with GMsun, at the position
\* of j relative to the Sun as the look-up of line 794 gave it.
solar_GR(ks, in, sim, j) ==
    LET d  == Plus(RealPos(in, j), Minus(ks.o.v, ks.s.v))
        ok == ks.GMsun.ok /\ ks.o.ok /\ ks.s.ok
        a1 == Add(ks.acc, j, SymbolicAt("solar_GR", 1, ks.GMsun.val, 0, d, ok))
    IN  [ks EXCEPT !.acc =
            Children(a1, sim, j, 0,
                     SymbolicAt("solar_GR_var", 1, ks.GMsun.val, 0, d, ok))]

\* Lines 823-980: the non-gravitational block computes its term and its
\* Jacobian for real particle j; the statements that add them to the
\* accelerations (853-855, 973-975) are comments.
nongrav(ks, sim, j) == ks

\* The look-ups L[k..] of one EIH iteration; no acceleration is written.
RECURSIVE FetchEih(_, _)
FetchEih(ks, k) ==
    IF k > Len(EihLookups) THEN ks
    ELSE FetchEih(Fetch(ks, EihLookups[k].i, "", "eih"), k + 1)

\* Variant: the origin's acceleration is taken off twice.
indirect_term_Twice(ks, j) ==
    LET c == Symbolic("indirect", 0 - 1, NoGM, ks.o.body, ks.o.ok)
    IN  [ks EXCEPT !.acc = Add(Add(@, j, c), j, c),
                   !.printed = Add(@, j, ks.acc[j + 1])]

\* Lines 1598-1603: the acceleration real particle j has accumulated is
\* printed (line 1600), then the acceleration of the origin (axo, ayo, azo)
\* is taken off it.
indirect_term(ks, j) ==
    [ks EXCEPT !.acc =
        Add(@, j, Symbolic("indirect", 0 - 1, NoGM, ks.o.body, ks.o.ok)),
               !.printed = Add(@, j, ks.acc[j + 1])]

\* Iteration j of the per-particle loop of a term.
Iteration(ks, in, sim, term, j) ==
    CASE term = "direct"         -> direct_force(ks, in, j)
      [] term = "direct_var"     -> direct_variational(ks, in, sim, j)
      [] term = "earth_J2J4"     -> earth_J2J4(ks, in, sim, j)
      [] term = "solar_J2"       -> solar_J2(ks, in, sim, j)
      [] term = "nongrav"        -> nongrav(ks, sim, j)
      [] term = "solar_GR"       -> solar_GR(ks, in, sim, j)
      [] term = "eih"            -> FetchEih(ks, 1)
      [] term = "indirect"       -> indirect_term(ks, j)

\* The routine as a list of steps: facade calls outside the per-particle
\* loops, and the per-particle loops.
Call(i, site, slot) == [op |-> "call", i |-> i, site |-> site, slot |-> slot,
                        term |-> ""]

Loop(term) == [op |-> "loop", i |-> 0, site |-> "", slot |-> "", term |-> term]

PerBody(site, term) ==
    [k \in 1 .. 2 * N_tot |->
        IF k % 2 = 1 THEN Call((k - 1) \div 2, site, "x") ELSE Loop(term)]

\* Variant: the relativistic loop runs before the solar J2 loop.
Steps_RelativisticEarly(geo) ==
    (IF geo = 1 THEN << Call(3, "a", "o") >> ELSE << >>)
    \o PerBody("b", "direct")
    \o PerBody("c", "direct_var")
    \o << Call(3, "", "e"), Loop("earth_J2J4"),
          Call(0, "", "r"), Call(0, "", "s"), Loop("solar_GR"),
          Loop("solar_J2"), Loop("nongrav"), Loop("eih") >>
    \o (IF geo = 1 THEN << Call(3, "", "o"), Loop("indirect") >> ELSE << >>)

Steps(geo) ==
    (IF geo = 1 THEN << Call(3, "a", "o") >> ELSE << >>)
    \o PerBody("b", "direct")
    \o PerBody("c", "direct_var")
    \o << Call(3, "", "e"), Loop("earth_J2J4"),
          Call(0, "", "r"), Loop("solar_J2"),
          Call(0, "", "s"), Loop("nongrav"), Loop("solar_GR"), Loop("eih") >>
    \o (IF geo = 1 THEN << Call(3, "", "o"), Loop("indirect") >> ELSE << >>)

\* Iterations j..N_real-1 of a loop in the order of the code.
RECURSIVE InOrder(_, _, _, _, _, _)
InOrder(ks, in, sim, term, j, N_real) ==
    IF j >= N_real THEN ks
    ELSE InOrder(Iteration(ks, in, sim, term, j), in, sim, term, j + 1, N_real)

Step(ks, in, sim, st) ==
    IF st.op = "call" THEN Fetch(ks, st.i, st.site, st.slot)
    ELSE InOrder(ks, in, sim, st.term, 0, in.n_particles)

\* Steps S[lo..hi] in order: the first half, then the second half from the
\* state the first half left.
RECURSIVE RunSteps(_, _, _, _, _, _)
RunSteps(ks, in, sim, S, lo, hi) ==
    IF lo > hi THEN ks
    ELSE IF lo = hi THEN Step(ks, in, sim, S[lo])
    ELSE LET mid == (lo + hi) \div 2
         IN  CHOOSE out \in { RunSteps(left, in, sim, S, mid + 1, hi) :
                                left \in { RunSteps(ks, in, sim, S, lo, mid) } } :
                        TRUE

\* The locals of the routine after the parameter checks and the choice of
\* origin (lines 350-378); in the barycentric frame the origin is zero.
Locals(ks, in) ==
    [ks EXCEPT !.GM = [val |-> NoGM, ok |-> FALSE],
               !.GMsun = [val |-> NoGM, ok |-> FALSE],
               !.x = Unset,
               !.r = Unset,
               !.s = Unset,
               !.o = IF in.geocentric = 1 THEN Unset
                     ELSE Slot(Zero3, TRUE, 0 - 1)]

\* Variant: only the speed of light is required.
ParamsMissing_OnlyC(in) == ~in.c_set

\* Lines 338-348.
ParamsMissing(in) == ~in.c_set \/ ~in.geo_set

ParamError(in) ==
    [site |-> IF ~in.c_set THEN "noc" ELSE "nogeo", i |-> 0, flag |-> NO_ERR]

\* The whole routine on the kernel state ks.
ephemeris_forces(ks, in, sim) ==
    IF ParamsMissing(in)
    THEN [ks EXCEPT !.messages = reb_error(@, ParamError(in))]
    ELSE LET S == Steps(in.geocentric)
         IN  RunSteps(Locals(ks, in), in, sim, S, 1, Len(S))

----------------------------------------------------------------------------
(* One force evaluation *)

\* What the particles' accelerations hold when an evaluation is asked for:
\* the sums of the evaluation before.
Stale == Symbolic("stale", 1, NoGM, 0 - 1, FALSE)

\* Parent indices in non-decreasing order; MaxReal is never a real particle.
ParentVectors ==
    { ip \in UNION { [1 .. k -> 0 .. MaxReal] : k \in 0 .. MaxSib } :
         \A k \in 1 .. Len(ip) - 1 : ip[k] <= ip[k + 1] }

\* Every parent index names a real particle or is n_particles, the first
\* index that names none.
KernInputs ==
    { in \in
        { [geocentric |-> g, c_set |-> c, geo_set |-> gs, n_particles |-> n,
           invar_part |-> ip, stale |-> st, close |-> cl] :
             g \in {0, 1}, c \in BOOLEAN, gs \in BOOLEAN, n \in 1 .. MaxReal,
             ip \in ParentVectors, st \in BOOLEAN, cl \in BOOLEAN } :
        /\ \A k \in 1 .. Len(in.invar_part) :
              in.invar_part[k] <= in.n_particles
        /\ ~(in.stale /\ in.close) }

\* The kernel state before the routine runs.
KernelState(f, in, sim) ==
    [fac |-> f, messages |-> << >>, ev |-> << >>,
     acc |-> [k \in 1 .. Len(sim.particles) |->
                IF in.stale THEN << Stale >> ELSE << >>],
     printed |-> [k \in 1 .. Len(sim.particles) |-> << >>],
     GM |-> [val |-> NoGM, ok |-> FALSE],
     GMsun |-> [val |-> NoGM, ok |-> FALSE],
     x |-> Unset, r |-> Unset, s |-> Unset, o |-> Unset]

\* Variant: the accelerations are left as they are.
reb_zero_accelerations_Keep(ks) == ks

\* The driver clears every particle's acceleration before it calls the
\* additional forces.
reb_zero_accelerations(ks) ==
    [ks EXCEPT !.acc = [k \in DOMAIN ks.acc |-> << >>]]

\* Lines 1740-1770: integration_function fills the particle array.
particle_setup(in) ==
    /\ pc = "idle"
    /\ kern.pc = "idle"
    /\ LET sim == AddParticles(in.n_particles, in.invar_part)
       IN  kern' = [pc |-> "set", in |-> in, sim |-> sim,
                    ks0 |-> KernelState(fac, in, sim),
                    ks |-> KernelState(fac, in, sim),
                    ip |-> 1, done |-> {}, touched |-> << >>]
    /\ UNCHANGED << fac, last_steps_done, jpl_file, spk_file, env_changed,
                    called, q, session >>

\* One evaluation asked for by the driver: clear, then the force routine.
update_acceleration ==
    /\ kern.pc = "set"
    /\ kern' = [kern EXCEPT
                  !.pc = "done",
                  !.ks = ephemeris_forces(reb_zero_accelerations(@), kern.in,
                                          kern.sim)]
    /\ fac' = kern'.ks.fac
    /\ UNCHANGED << last_steps_done, jpl_file, spk_file, env_changed, called,
                    q, session >>

evaluation_done ==
    /\ kern.pc = "done"
    /\ kern' = NoKern
    /\ UNCHANGED << fac, last_steps_done, jpl_file, spk_file, env_changed,
                    called, q, session >>

NextForce ==
    \/ \E in \in KernInputs : particle_setup(in)
    \/ update_acceleration
    \/ evaluation_done

SpecForce == Init /\ [][NextForce]_vars

----------------------------------------------------------------------------
(* The per-particle loops of one evaluation, iterations in any order *)

TermInputs ==
    { in \in KernInputs :
         in.c_set /\ in.geo_set /\ ~in.stale /\ ~in.close /\ in.geocentric = 1 }

\* The particles whose acceleration differs between a and b.
Changed(a, b) == { k - 1 : k \in { n \in DOMAIN a : a[n] # b[n] } }

terms_setup(in) ==
    /\ pc = "idle"
    /\ kern.pc = "idle"
    /\ jpl_file /\ spk_file
    /\ LET sim == AddParticles(in.n_particles, in.invar_part)
           ks0 == reb_zero_accelerations(KernelState(fac, in, sim))
       IN  kern' = [pc |-> "run", in |-> in, sim |-> sim, ks0 |-> ks0,
                    ks |-> Locals(ks0, in), ip |-> 1, done |-> {},
                    touched |-> << >>]
    /\ UNCHANGED << fac, last_steps_done, jpl_file, spk_file, env_changed,
                    called, q, session >>

\* A facade call between the loops.
call_step ==
    /\ kern.pc = "run"
    /\ kern.ip <= Len(Steps(kern.in.geocentric))
    /\ LET st == Steps(kern.in.geocentric)[kern.ip]
       IN  /\ st.op = "call"
           /\ kern' = [kern EXCEPT !.ks = Fetch(@, st.i, st.site, st.slot),
                                    !.ip = @ + 1]
           /\ fac' = kern'.ks.fac
    /\ UNCHANGED << last_steps_done, jpl_file, spk_file, env_changed, called,
                    q, session >>

\* Iteration j of the current loop, taken in any order; the loop is left
\* when every real particle has had its iteration.
loop_iteration(j) ==
    /\ kern.pc = "run"
    /\ kern.ip <= Len(Steps(kern.in.geocentric))
    /\ j < kern.in.n_particles
    /\ j \notin kern.done
    /\ LET st == Steps(kern.in.geocentric)[kern.ip]
       IN  /\ st.op = "loop"
           /\ LET ks   == Iteration(kern.ks, kern.in, kern.sim, st.term, j)
                  last == kern.done \cup {j} = 0 .. kern.in.n_particles - 1
                  seen == IF kern.done = {} THEN << >> ELSE kern.touched
              IN  /\ kern' = [kern EXCEPT
                                !.ks = ks,
                                !.done = IF last THEN {} ELSE @ \cup {j},
                                !.ip = IF last THEN @ + 1 ELSE @,
                                !.touched =
                                   (j + 1 :> Changed(kern.ks.acc, ks.acc))
                                   @@ seen]
                  /\ fac' = ks.fac
    /\ UNCHANGED << last_steps_done, jpl_file, spk_file, env_changed, called,
                    q, session >>

terms_return ==
    /\ kern.pc = "run"
    /\ kern.ip > Len(Steps(kern.in.geocentric))
    /\ kern' = [kern EXCEPT !.pc = "done"]
    /\ UNCHANGED << fac, last_steps_done, jpl_file, spk_file, env_changed,
                    called, q, session >>

NextTerms ==
    \/ \E in \in TermInputs : terms_setup(in)
    \/ call_step
    \/ \E j \in 0 .. MaxReal - 1 : loop_iteration(j)
    \/ terms_return

SpecTerms == Init /\ [][NextTerms]_vars

----------------------------------------------------------------------------
(* Output buffer bounds and the stop on a full buffer *)

InCall == pc \in {"loop", "returned"}

Returned == pc = "returned"

\* Rows of the time buffer and entries of the state buffer written so far.
TimeRows == DOMAIN outtime

StateEntries == DOMAIN outstate

RowLen == 6 * r.N

\* C1 as stated: every index written into out_time is below out_capacity
\* and every index written into out_state is below 6*N*out_capacity.
C1_IndicesBelowCapacity ==
    /\ \A idx \in TimeRows : idx < args.n_alloc
    /\ \A idx \in StateEntries : idx < RowLen * args.n_alloc

\* C1: every index the recorder writes is non-negative, below
\* out_capacity*n_sub + 1 in out_time and below 6*N*(out_capacity*n_sub + 1)
\* in out_state: out_capacity counts steps, each of n_sub rows, after the
\* initial row.
C1_IndicesInsideBuffers ==
    /\ \A idx \in TimeRows : 0 <= idx /\ idx < args.n_alloc * nsub + 1
    /\ \A idx \in StateEntries :
           0 <= idx /\ idx < RowLen * (args.n_alloc * nsub + 1)

\* A run that filled the last row the capacity allows.
C1_Witness ==
    /\ Returned
    /\ args.n_alloc >= 1
    /\ args.n_alloc * nsub \in TimeRows
    /\ RowLen * (args.n_alloc * nsub + 1) - 1 \in StateEntries

\* C2 as stated: a run that ends on a full buffer returns a status of its
\* own, neither the success status nor the user-stop status.
C2_OwnStatus ==
    (Returned /\ BufferExhausted(args.n_alloc, n_out))
        => status \notin {"REB_EXIT_SUCCESS", "REB_EXIT_USER"}

\* C2: when fewer than one step of capacity remains the recorder sets the
\* user-stop status REB_EXIT_USER, and integration_function returns it, a
\* status other than success, unless an error message is waiting, which
\* makes the status REB_EXIT_ERROR.
C2_StopsWithUserStatus ==
    /\ (pc = "loop" /\ BufferExhausted(ts.n_alloc, r.steps_done))
           => r.status = "REB_EXIT_USER"
    /\ (Returned /\ BufferExhausted(args.n_alloc, n_out))
           => status = IF reb_error_message_waiting(r)
                       THEN "REB_EXIT_ERROR" ELSE "REB_EXIT_USER"

\* A run cut short by the buffer, with time left to integrate.
C2_Witness ==
    /\ Returned
    /\ status = "REB_EXIT_USER"
    /\ args.n_alloc >= 1
    /\ n_out = args.n_alloc
    /\ r.t < args.tend

\* C3: at return n_out, the number of steps recorded, is at most
\* out_capacity.
C3_StepsWithinCapacity == Returned => (0 <= n_out /\ n_out <= args.n_alloc)

\* A run that would have needed more steps than the capacity and returned
\* with exactly the capacity.
C3_Witness ==
    /\ Returned
    /\ args.tend > args.n_alloc
    /\ n_out = args.n_alloc
    /\ n_out >= 1
    /\ r.failed = {}

----------------------------------------------------------------------------
(* What the output holds *)

\* Exactly the rows 0 .. k*nsub are written, each in full.
RowsWritten(k) ==
    /\ TimeRows = 0 .. k * nsub
    /\ StateEntries = 0 .. RowLen * (k * nsub + 1) - 1

C4_NoStepAfterStop ==
    (pc = "loop" /\ r.status = "REB_EXIT_USER")
        => /\ pc' = "returned"
           /\ n_out' = r.steps_done
           /\ outtime' = outtime
           /\ outstate' = outstate

\* C4: throughout a call the rows written are exactly 0 .. steps_done*n_sub,
\* at return n_out is the number of accepted steps, and once the recorder has
\* set the stop status the only thing that follows is the return, with no
\* further step and no further write.
C4_RowsMatchAcceptedSteps ==
    /\ [](InCall => RowsWritten(r.steps_done))
    /\ [](Returned => (n_out = r.steps_done /\ RowsWritten(n_out)))
    /\ [][C4_NoStepAfterStop]_vars

\* A run stopped by the recorder after at least one step, short of tend.
C4_Witness ==
    /\ Returned
    /\ status = "REB_EXIT_USER"
    /\ n_out >= 1
    /\ r.t < args.tend
    /\ RowsWritten(n_out)

\* The step and the sub-node a row after row 0 belongs to.
StepOfRow(row) == ((row - 1) \div nsub) + 1

NodeOfRow(row) == ((row - 1) % nsub) + 1

\* What row `row` holds for component c of particle j: row 0 the particle's
\* initial component, a later row the sample of its step at its sub-node,
\* built from the state and acceleration at the start of that step.
ExpectedCell(row, j, c) ==
    IF row = 0 THEN Own(j, c, 0)
    ELSE Cell(j, c, NodeOfRow(row), StepOfRow(row) - 1,
              Time(StepOfRow(row) - 1, 0, 0), StepOfRow(row), 1)

\* C5: after k accepted steps rows 0 .. k*n_sub are written and nothing
\* else; row 0 holds the initial time and state, row (s-1)*n_sub + n the
\* sample of step s at sub-node n; every entry has been written exactly
\* once; particle j occupies offsets 6j .. 6j+5 of its row, as x, y, z, vx,
\* vy, vz.
C5_RowLayout ==
    InCall =>
        /\ RowsWritten(r.steps_done)
        /\ \A row \in TimeRows :
               /\ outtime[row].n = 1
               /\ row = 0 => outtime[row].val = 0
               /\ \A j \in 0 .. r.N - 1, c \in 0 .. 5 :
                      outstate[row * RowLen + 6 * j + c]
                          = [val |-> ExpectedCell(row, j, c), n |-> 1]

\* Two steps of at least two particles recorded.
C5_Witness ==
    /\ Returned
    /\ n_out >= 2
    /\ r.N >= 2
    /\ outstate[2 * nsub * RowLen + 6 * 1 + 5]
           = [val |-> ExpectedCell(2 * nsub, 1, 5), n |-> 1]

----------------------------------------------------------------------------
(* Ephemeris failures during a run *)

\* Some ephemeris look-up of the current call returned an error flag.
QueryFailed == r.failed # {}

\* The small-body reader could not be initialised during the current call.
SmallBodyFailed == ERR_JPL_AST \in r.failed

C6_NoStepAfterFailure ==
    (pc = "loop" /\ QueryFailed)
        => (pc' = "returned" /\ status' = "REB_EXIT_ERROR")

\* C6: once an ephemeris look-up has failed in a run, the run takes no
\* further step, and integration_function returns the error status
\* REB_EXIT_ERROR, never the success status.
C6_FailureIsFatal ==
    /\ []((Returned /\ QueryFailed) => status = "REB_EXIT_ERROR")
    /\ [][C6_NoStepAfterFailure]_vars

\* A run with time to integrate and room to record, ended by a failed
\* look-up.
C6_Witness ==
    /\ Returned
    /\ QueryFailed
    /\ status = "REB_EXIT_ERROR"
    /\ args.tend >= 1
    /\ args.n_alloc >= 1
    /\ n_out = 0

\* C7 as stated: when the small-body reader cannot open its file, no entry
\* of out_time or out_state is written.
C7_BuffersUntouched ==
    (InCall /\ SmallBodyFailed) => (TimeRows = {} /\ StateEntries = {})

\* C7: when the small-body reader cannot open its file, row 0 of out_time
\* and out_state, the initial time and state, is written once (the recorder
\* runs before the first force evaluation) and no other entry is.
C7_OnlyInitialRow ==
    (InCall /\ SmallBodyFailed) =>
        /\ r.steps_done = 0
        /\ RowsWritten(0)
        /\ outtime[0] = [val |-> 0, n |-> 1]
        /\ \A j \in 0 .. r.N - 1, c \in 0 .. 5 :
               outstate[6 * j + c] = [val |-> Own(j, c, 0), n |-> 1]

\* A returned run whose small-body reader failed while the planetary reader
\* worked.
C7_Witness ==
    /\ Returned
    /\ r.failed = {ERR_JPL_AST}
    /\ status = "REB_EXIT_ERROR"
    /\ 0 \in TimeRows

----------------------------------------------------------------------------
(* Facade range checks *)

\* C8: an all_ephem query with i < 0 or i >= N_ephem + N_ast returns an
\* out-of-range flag (ERR_NEPH below the range, ERR_NAST above it) without
\* touching a GM table, initialising a reader or calling a calc routine;
\* for i in [0, 27), with both readers initialised or able to initialise,
\* it returns NO_ERR.
C8_RangeChecked ==
    q.asked =>
        /\ q.i < 0 => (q.flag = ERR_NEPH /\ q.ev = << >>)
        /\ q.i >= N_tot => (q.flag = ERR_NAST /\ q.ev = << >>)
        /\ (q.i \in 0 .. N_tot - 1 /\ q.jpl /\ q.spk) => q.flag = NO_ERR

\* The first index past the range was asked for and rejected.
C8_Witness ==
    /\ q.asked
    /\ q.i = N_tot
    /\ q.flag = ERR_NAST
    /\ q.ev = << >>

----------------------------------------------------------------------------
(* What a call returns, and what it depends on *)

ExpectedSteps(a, ok) ==
    IF ~ok THEN 0 ELSE IF a.tend < a.n_alloc THEN a.tend ELSE a.n_alloc

ExpectedStatus(a, ok) ==
    IF ~ok THEN "REB_EXIT_ERROR"
    ELSE IF a.n_alloc <= a.tend THEN "REB_EXIT_USER"
    ELSE "REB_EXIT_SUCCESS"

\* What a call with arguments a returns and leaves in the caller's buffers
\* when the ephemeris readers work (ok) or fail.
Expected(a, ok) ==
    LET k == ExpectedSteps(a, ok)
        L == 6 * (a.n_particles + a.n_var)
    IN  [status |-> ExpectedStatus(a, ok),
         n_out |-> k,
         outtime |-> [row \in 0 .. k * nsub |-> [val |-> row, n |-> 1]],
         outstate |-> [idx \in 0 .. L * (k * nsub + 1) - 1 |->
                          [val |-> ExpectedCell(idx \div L, (idx % L) \div 6,
                                                idx % 6),
                           n |-> 1]]]

Outcome ==
    [status |-> status, n_out |-> n_out, outtime |-> outtime,
     outstate |-> outstate]

FilesPresent == jpl_file /\ spk_file

\* Both readers are initialised at the end of the call: they were before
\* it or could be during it.
ReadersWorked == fac.ephem_initialized = 1 /\ fac.ast_initialized = 1

\* C9 as stated: what a call returns and writes is determined by its
\* arguments and the ephemeris files, whatever calls preceded it.
C9_ArgumentsAndFiles == Returned => Outcome = Expected(args, FilesPresent)

\* C9: what a call returns and writes is determined by its arguments and by
\* whether the readers work, whatever calls preceded it: last_steps_done and
\* the cached Sun state and t_last never matter, the readers' initialised
\* flags do.  As long as no ephemeris file has appeared or vanished since
\* the process started, the readers work exactly if the files are present.
C9_ArgumentsAndReaders ==
    Returned =>
        /\ Outcome = Expected(args, ReadersWorked)
        /\ ~env_changed => (ReadersWorked <=> FilesPresent)

\* A later call of the process, with the recorder's counter left by an
\* earlier one, that recorded steps.
C9_Witness ==
    /\ Returned
    /\ called
    /\ n_out >= 1
    /\ Outcome = Expected(args, TRUE)

----------------------------------------------------------------------------
(* Allocations *)

\* C10: nothing is used or freed while not live; at return every allocation
\* of the call (timestate, last_state, the x0/v0/a0 scratch arrays, the
\* simulation, its extras) has been freed as often as allocated and none is
\* live; the caller's out_time and out_state are never freed.
C10_Released ==
    /\ ~uaf
    /\ \A p \in Owned :
           /\ frees[p] <= mallocs[p]
           /\ mallocs[p] <= frees[p] + 1
           /\ Returned => (frees[p] = mallocs[p] /\ heap[p] # "live")
    /\ InCall => \A p \in Callers : heap[p] = "live" /\ frees[p] = 0

\* A returned run that allocated the scratch arrays for two steps.
C10_Witness ==
    /\ Returned
    /\ mallocs["a0"] >= 2
    /\ frees["a0"] = mallocs["a0"]
    /\ frees["ts"] = 1
    /\ frees["last_state"] = 1
    /\ frees["sim"] = 1
    /\ frees["rebx"] = 1

----------------------------------------------------------------------------
(* Layout of the particle array *)

Populated == kern.pc # "idle"

NReal == kern.in.n_particles

NVar == Len(kern.in.invar_part)

\* The array holds the real particles in input order, then the variational
\* particles in input order, each bound to the parent the caller named.
ArrayLayout ==
    /\ Len(kern.sim.particles) = NReal + NVar
    /\ Len(kern.sim.var_config) = NVar
    /\ \A j \in 0 .. NReal - 1 :
          At(kern.sim.particles, j) = Particle("instate", j)
    /\ \A k \in 0 .. NVar - 1 :
          /\ At(kern.sim.particles, NReal + k) = Particle("invar", k)
          /\ kern.sim.var_config[k + 1] =
                [index |-> NReal + k, testparticle |-> kern.in.invar_part[k + 1]]

----------------------------------------------------------------------------
(* Independence of the per-particle iterations *)

\* Real particle j and the variational particles bound to it.
Family(j) ==
    {j} \cup { kern.sim.var_config[v].index :
                 v \in { w \in 1 .. Len(kern.sim.var_config) :
                           kern.sim.var_config[w].testparticle = j } }

Interleaved == kern.pc = "done" /\ kern.ip > 1

\* C12: within a term the iteration of real particle j changes only the
\* accelerations of j and of its variational particles, two iterations
\* change no common particle, and whatever the order of the iterations the
\* evaluation ends in the state the loops reach in the order of the code.
C12_IterationsIndependent ==
    /\ kern.pc = "run" =>
          /\ \A k \in DOMAIN kern.touched : kern.touched[k] \subseteq Family(k - 1)
          /\ \A k, l \in DOMAIN kern.touched :
                k # l => kern.touched[k] \cap kern.touched[l] = {}
    /\ Interleaved =>
          kern.ks = ephemeris_forces(kern.ks0, kern.in, kern.sim)

C12_Witness ==
    /\ kern.pc = "run"
    /\ kern.in.invar_part = << 0, 1 >>
    /\ kern.done = {1}
    /\ kern.touched = (2 :> {1, 3})

----------------------------------------------------------------------------
(* The indirect term *)

Evaluated == kern.pc = "done" /\ ~ParamsMissing(kern.in)

AllParticles == 0 .. Len(kern.sim.particles) - 1

\* The accumulations of the named term into particle idx.
TermsOf(idx, term) ==
    { n \in DOMAIN kern.ks.acc[idx + 1] : kern.ks.acc[idx + 1][n].term = term }

\* C13: in a geocentric run every real particle has the origin's
\* acceleration taken off exactly once and, when no look-up was reported
\* as failed, that is the Earth's acceleration from the ephemeris; no
\* variational particle has it taken off; in a barycentric run no particle
\* has.
C13_IndirectOnce ==
    Evaluated =>
       \A idx \in AllParticles :
          IF kern.in.geocentric = 1 /\ idx < NReal
          THEN /\ Cardinality(TermsOf(idx, "indirect")) = 1
               /\ \A n \in TermsOf(idx, "indirect") :
                     LET c == kern.ks.acc[idx + 1][n]
                     IN  /\ c.sign = 0 - 1
                         /\ kern.ks.messages = << >> => c.body = 3 /\ c.ok
          ELSE TermsOf(idx, "indirect") = {}

C13_Witness ==
    /\ Evaluated
    /\ kern.in.geocentric = 1
    /\ kern.ks.messages = << >>
    /\ NReal = 2
    /\ kern.in.invar_part = << 1, 1 >>
    /\ Cardinality(TermsOf(1, "indirect")) = 1
    /\ TermsOf(2, "indirect") = {}

----------------------------------------------------------------------------
(* Accelerations that are not finite *)

\* The accumulations into particle idx whose value is not finite: the
\* distance to the body is zero.
NonFinite(idx) ==
    { n \in DOMAIN kern.ks.acc[idx + 1] : kern.ks.acc[idx + 1][n].r2 = 0 }

LookupSites == {"a", "b", "c"}

Reports == { kern.ks.messages[n].site : n \in DOMAIN kern.ks.messages }

\* C14 as stated: an accumulation that is not finite is reported as an
\* error of its own, naming the term and the particle.
C14_NonFiniteReported ==
    Evaluated =>
       \A idx \in AllParticles :
          NonFinite(idx) # {} =>
             \E n \in DOMAIN kern.ks.messages :
                /\ kern.ks.messages[n].site \notin LookupSites
                /\ kern.ks.messages[n].i = idx

\* C14: the routine reports nothing but failed ephemeris look-ups; a term
\* that is not finite stays in the particle's acceleration unreported.
C14_NoValidation ==
    Evaluated =>
       /\ Reports \subseteq LookupSites
       /\ (kern.in.close /\ kern.ks.messages = << >>) =>
             \E n \in NonFinite(0) :
                /\ kern.ks.acc[1][n].term = "direct"
                /\ kern.ks.acc[1][n].body = 5

C14_Witness ==
    /\ Evaluated
    /\ kern.in.close
    /\ kern.ks.messages = << >>
    /\ NonFinite(0) # {}

----------------------------------------------------------------------------
(* Missing parameters *)

\* C15: when the speed of light or the geocentric flag is not set, the
\* routine records one error and returns: no reader was called, the
\* facade's statics and every acceleration are as they were at entry.
C15_ReturnsBeforeWork ==
    (kern.pc = "done" /\ (~kern.in.c_set \/ ~kern.in.geo_set)) =>
       /\ Len(kern.ks.messages) = 1
       /\ kern.ks.messages[1].site = (IF ~kern.in.c_set THEN "noc" ELSE "nogeo")
       /\ kern.ks.ev = << >>
       /\ kern.ks.fac = kern.ks0.fac
       /\ fac = kern.ks0.fac
       /\ kern.ks.acc = reb_zero_accelerations(kern.ks0).acc

C15_Witness ==
    /\ kern.pc = "done"
    /\ kern.in.c_set
    /\ ~kern.in.geo_set
    /\ kern.in.geocentric = 1
    /\ jpl_file /\ spk_file
    /\ kern.ks.messages[1].site = "nogeo"
    /\ fac.ephem_initialized = 0

----------------------------------------------------------------------------
(* Small bodies in the barycentric frame *)

SmallBodyAnswered == q.asked /\ q.flag = NO_ERR /\ q.i >= N_ephem

ReaderCalls == { q.ev[n] : n \in DOMAIN q.ev }

\* C16: whatever queries went before, a small-body query that succeeds at
\* t returns the small-body reader's heliocentric position of that body at
\* t plus the Sun's barycentric position at the same t; the Sun is read
\* again unless the saved Sun state is of time t.
C16_SunOfSameTime ==
    /\ SmallBodyAnswered =>
          /\ Ev("spk_calc", q.i - N_ephem, q.t) \in ReaderCalls
          /\ q.out.body = q.i
          /\ q.out.t = q.t
          /\ q.out.sun = q.t
          /\ Ev("jpl_calc", 0, q.t) \notin ReaderCalls => q.t_last = q.t
    /\ fac.t_last # NoTime => fac.xs = fac.t_last

C16_Witness ==
    /\ SmallBodyAnswered
    /\ q.t = Time(1, 0, 0)
    /\ q.t_last = q.t
    /\ Ev("jpl_calc", 0, q.t) \notin ReaderCalls
    /\ q.out.sun = q.t

----------------------------------------------------------------------------
(* Repeated queries *)

\* The query before was of the same body at the same time and succeeded.
Repeated == q.asked /\ q.again /\ q.flag = NO_ERR

\* The reader call that computes the state of body i at t.
CalcOf(i, t) ==
    IF i < N_ephem THEN Ev("jpl_calc", i, t)
    ELSE Ev("spk_calc", i - N_ephem, t)

\* C20 as stated: a repeated query of the same body at the same time does
\* not call the external reader again.
C20_NoSecondRead ==
    Repeated => \A n \in DOMAIN q.ev : q.ev[n].op \notin {"jpl_calc", "spk_calc"}

\* C20: every successful query calls the reader for the body asked, a
\* repeated one too; what is saved per time is the Sun state that
\* translates small bodies, which a repeated small-body query does not
\* read again.
C20_OnlySunSaved ==
    /\ (q.asked /\ q.flag = NO_ERR) => CalcOf(q.i, q.t) \in ReaderCalls
    /\ (Repeated /\ q.i >= N_ephem) => Ev("jpl_calc", 0, q.t) \notin ReaderCalls

C20_Witness ==
    /\ Repeated
    /\ q.i = N_ephem + 1
    /\ q.ev = << Ev("AST_GM", 1, NoTime), Ev("spk_calc", 1, q.t) >>

----------------------------------------------------------------------------
(* The GM constants of the harmonic and relativistic terms *)

AllFound == Evaluated /\ kern.ks.messages = << >>

EarthTerms == {"earth_J2J4", "earth_J2J4_var"}

SunTerms == {"solar_J2", "solar_J2_var", "solar_GR", "solar_GR_var"}

\* C17 as stated: the Earth J2/J4 term works with the GM the facade gives
\* for body 3, the solar J2 and relativistic terms with the GM it gives for
\* body 0.
C17_SingleTable ==
    AllFound =>
       \A idx \in AllParticles :
          \A n \in DOMAIN kern.ks.acc[idx + 1] :
             LET c == kern.ks.acc[idx + 1][n]
             IN  /\ c.term \in EarthTerms => c.gm = GMof(3)
                 /\ c.term \in SunTerms => c.gm = GMof(0)

----------------------------------------------------------------------------
(* Direct gravity and its variational block *)

\* Position of body i and of the origin as the facade gives them.
BodyPosition(i) == IF i < N_ephem THEN Bary(i) ELSE Plus(Helio(i), Bary(0))

Origin == IF kern.in.geocentric = 1 THEN BodyPosition(3) ELSE Zero3

Separation(i, j) == Plus(RealPos(kern.in, j), Minus(Origin, BodyPosition(i)))

\* |d|^5 times the matrix 3 d_a d_b / |d|^5 - delta_ab / |d|^3.
TidalMatrix(d) ==
    [a \in 1 .. 3 |->
       [b \in 1 .. 3 |->
          3 * d[a] * d[b] - (IF a = b THEN Dot(d, d) ELSE 0)]]

\* The one accumulation of the named term for body i into particle idx.
TheTerm(idx, term, i) ==
    { n \in TermsOf(idx, term) : kern.ks.acc[idx + 1][n].body = i }

\* C18: for every body i and real particle j away from it, the direct loop
\* adds -(GM_i/|d|^3) d to j once and the variational loop adds
\* GM_i * J * dr once to every variational particle of j, with J the tidal
\* matrix at the same d = r_j + origin - r_i and dr that particle's
\* displacement.
C18_VariationalConsistent ==
    AllFound =>
       \A i \in 0 .. N_tot - 1 : \A j \in 0 .. NReal - 1 :
          LET d == Separation(i, j)
          IN  Dot(d, d) # 0 =>
                /\ Cardinality(TheTerm(j, "direct", i)) = 1
                /\ \A n \in TheTerm(j, "direct", i) :
                      kern.ks.acc[j + 1][n] =
                         Contrib("direct", 0 - 1, GMof(i), i, d, 3, Dot(d, d),
                                 TRUE)
                /\ \A v \in 1 .. NVar :
                      LET vc == kern.sim.var_config[v]
                      IN  IF vc.testparticle = j
                          THEN /\ Cardinality(TheTerm(vc.index, "direct_var", i)) = 1
                               /\ \A n \in TheTerm(vc.index, "direct_var", i) :
                                     kern.ks.acc[vc.index + 1][n] =
                                        Contrib("direct_var", 1, GMof(i), i,
                                                MatVec(TidalMatrix(d),
                                                       VarPos(v - 1)),
                                                5, Dot(d, d), TRUE)
                          ELSE TRUE

C18_Witness ==
    /\ AllFound
    /\ kern.in.geocentric = 1
    /\ NReal = 2
    /\ kern.in.invar_part = << 1, 1 >>
    /\ Cardinality(TheTerm(3, "direct_var", N_tot - 1)) = 1
    /\ Cardinality(TheTerm(1, "direct", N_tot - 1)) = 1

----------------------------------------------------------------------------
(* What an evaluation starts from *)

\* The number of accumulations the terms make into a real particle.
TermsPerReal == N_tot + 3 + (IF kern.in.geocentric = 1 THEN 1 ELSE 0)

HasParent(idx) ==
    \E v \in 1 .. NVar :
       /\ kern.sim.var_config[v].index = idx
       /\ kern.sim.var_config[v].testparticle < NReal

----------------------------------------------------------------------------
(* The sequence of the terms *)

\* The accumulations into a real particle in the order the claim gives:
\* direct gravity of bodies 0..N_tot-1, Earth J2/J4, solar J2, the
\* relativistic term and, in a geocentric run, the indirect term.  The
\* non-gravitational block stands between solar J2 and the relativistic
\* term and accumulates nothing.
FixedSequence(geo) ==
    [k \in 1 .. N_tot |-> << "direct", k - 1 >>]
    \o << << "earth_J2J4", 3 >>, << "solar_J2", 0 >>, << "solar_GR", 0 >> >>
    \o (IF geo = 1 THEN << << "indirect", 3 >> >> ELSE << >>)

\* Term and body of the accumulations into particle idx, in order.
TermSequence(idx) ==
    [n \in DOMAIN kern.ks.acc[idx + 1] |->
        << kern.ks.acc[idx + 1][n].term, kern.ks.acc[idx + 1][n].body >>]

CurrentLoop ==
    IF kern.pc = "run" /\ kern.ip <= Len(Steps(kern.in.geocentric))
    THEN Steps(kern.in.geocentric)[kern.ip].term
    ELSE ""

----------------------------------------------------------------------------
(* The Jacobian contributions *)

VarTerms == {"direct_var", "earth_J2J4_var", "solar_J2_var", "solar_GR_var"}

\* The Jacobian contributions accumulated into particle idx, in order.
JacobianTerms(idx) ==
    SelectSeq(kern.ks.acc[idx + 1], LAMBDA c : c.term \in VarTerms)

\* The Jacobian contributions of the terms evaluated at the state of real
\* particle j for the variational particle with displacement VarPos(k):
\* one for every body of direct gravity, one each for Earth J2/J4, solar J2
\* and the relativistic term.
JacobiansAt(j, k) ==
    { LET d  == Separation(i, j)
          r2 == Dot(d, d)
      IN  Contrib("direct_var", 1, GMof(i), i,
                  MatVec(IF r2 = 0 THEN << Zero3, Zero3, Zero3 >>
                         ELSE Jacobian(d, r2), VarPos(k)),
                  5, r2, TRUE) : i \in 0 .. N_tot - 1 }
    \cup { SymbolicAt("earth_J2J4_var", 1, GMearth, 3, Separation(3, j), TRUE),
           SymbolicAt("solar_J2_var", 1, GMof(0), 0, Separation(0, j), TRUE),
           SymbolicAt("solar_GR_var", 1, GMof(0), 0, Separation(0, j), TRUE) }

\* C23: when every look-up succeeds, each variational particle whose
\* configured parent is real particle j has, at its configured index,
\* exactly one Jacobian contribution of every active term (direct gravity
\* of each body, Earth J2/J4, solar J2, relativistic), each evaluated at
\* the state of j, and no other; a variational particle whose parent is no
\* real particle and the real particles have none.
C23_JacobiansToChildren ==
    AllFound =>
       /\ \A j \in 0 .. NReal - 1 : JacobianTerms(j) = << >>
       /\ \A v \in 1 .. NVar :
             LET vc == kern.sim.var_config[v]
                 J  == JacobianTerms(vc.index)
             IN  IF vc.testparticle < NReal
                 THEN /\ Len(J) = N_tot + 3
                      /\ { J[n] : n \in DOMAIN J }
                            = JacobiansAt(vc.testparticle, v - 1)
                 ELSE J = << >>

C23_Witness ==
    /\ AllFound
    /\ kern.in.geocentric = 0
    /\ NReal = 2
    /\ kern.in.invar_part = << 0, 1 >>
    /\ Len(JacobianTerms(3)) = N_tot + 3
    /\ JacobianTerms(3)[N_tot + 3] =
          SymbolicAt("solar_GR_var", 1, GMof(0), 0, Separation(0, 1), TRUE)
    /\ JacobianTerms(3)[N_tot + 3] # JacobianTerms(2)[N_tot + 3]

----------------------------------------------------------------------------
(* The start-of-step cache *)

\* The cache holds, for every particle, the state and the acceleration
\* evaluated at the time tt, with the positions as they were after k steps.
CacheHolds(cache, N, tt, k) ==
    \A j \in 0 .. N - 1 :
       cache[j] = [t |-> Time(tt, 0, 0), x |-> k, a |-> Time(tt, 0, 0)]

\* A turn of the driver's loop: a step was completed and the heartbeat ran.
StepCompleted == pc = "loop" /\ pc' = "loop" /\ r'.steps_done = r.steps_done + 1

\* C24: when a step is completed, the cache the heartbeat before left
\* holds every particle's state and acceleration at the time the step
\* began; the samples of the step are reconstructed from that cache, so the
\* recorder reads it before it is refreshed and nothing has written it
\* since the heartbeat before; after the heartbeat the cache holds the
\* state at the new time and the acceleration evaluated again at that time.
C24_CacheAtStepStart ==
    [][StepCompleted =>
         /\ CacheHolds(ts.last_state, r.N, r.t, r.steps_done)
         /\ r'.t = r.t + r'.dt_last_done
         /\ \A j \in 0 .. r.N - 1 : \A c \in 0 .. 5 : \A n \in 1 .. nsub :
               outstate'[SampleOffset(r'.steps_done, n, r.N, j) + c].val
                  = Cell(j, c, n, ts.last_state[j].x, ts.last_state[j].a,
                         r'.br, r'.dt_last_done)
         /\ \A j \in 0 .. r.N - 1 :
               /\ ts'.last_state[j] =
                     [t |-> Time(r'.t, 0, 0), x |-> r'.x, a |-> r'.a]
               /\ r'.x = r'.steps_done
               /\ r'.a \in {Time(r'.t, 0, 0), Garbage}]_vars

C24_Witness ==
    /\ pc = "loop"
    /\ r.steps_done = 2
    /\ r.N = 2
    /\ CacheHolds(ts.last_state, 2, 2, 2)
    /\ outstate[SampleOffset(2, nsub, 2, 1) + 5].val.a0 = Time(1, 0, 0)
    /\ outstate[SampleOffset(2, nsub, 2, 1) + 5].val.x0 = 1

----------------------------------------------------------------------------
(* The recorder's polynomial *)

\* The longest step, in units of tstep, a sample is reconstructed for.
MaxDt == 3

RECURSIVE Gcd(_, _)
Gcd(a, b) == IF b = 0 THEN a ELSE Gcd(b, a % b)

\* The coefficient num/den * hg[n]^h in lowest terms.
Coef(num, den, h) ==
    LET g == Gcd(num, den)
    IN  IF num = 0 THEN [num |-> 0, den |-> 1, h |-> 0]
        ELSE [num |-> num \div g, den |-> den \div g, h |-> h]

Times(k, s) == Coef(k * s.num, s.den, s.h)

Over(s, k) == Coef(s.num, k * s.den, s.h)

\* s * hg[n].
TimesHg(s) == Coef(s.num, s.den, s.h + 1)

Product(s, u) == Coef(s.num * u.num, s.den * u.den, s.h + u.h)

\* Variant: s[4] of the positions is formed without its factor 3.
PositionSums_Slip(dt) ==
    LET s0 == TimesHg(Coef(dt, 1, 0))
        s1 == Over(Product(s0, s0), 2)
        s2 == Over(TimesHg(s1), 3)
        s3 == Over(TimesHg(s2), 2)
        s4 == Over(TimesHg(s3), 5)
        s5 == Over(TimesHg(Times(2, s4)), 3)
        s6 == Over(TimesHg(Times(5, s5)), 7)
        s7 == Over(TimesHg(Times(3, s6)), 4)
        s8 == Over(TimesHg(Times(7, s7)), 9)
    IN  << s0, s1, s2, s3, s4, s5, s6, s7, s8 >>

\* Lines 1963-1972: s[0..8] for the positions, dt = r->dt_last_done.
PositionSums(dt) ==
    LET s0 == TimesHg(Coef(dt, 1, 0))
        s1 == Over(Product(s0, s0), 2)
        s2 == Over(TimesHg(s1), 3)
        s3 == Over(TimesHg(s2), 2)
        s4 == Over(TimesHg(Times(3, s3)), 5)
        s5 == Over(TimesHg(Times(2, s4)), 3)
        s6 == Over(TimesHg(Times(5, s5)), 7)
        s7 == Over(TimesHg(Times(3, s6)), 4)
        s8 == Over(TimesHg(Times(7, s7)), 9)
    IN  << s0, s1, s2, s3, s4, s5, s6, s7, s8 >>

\* Lines 1999-2006: s[0..7] for the velocities.
VelocitySums(dt) ==
    LET s0 == TimesHg(Coef(dt, 1, 0))
        s1 == Over(TimesHg(s0), 2)
        s2 == Over(TimesHg(Times(2, s1)), 3)
        s3 == Over(TimesHg(Times(3, s2)), 4)
        s4 == Over(TimesHg(Times(4, s3)), 5)
        s5 == Over(TimesHg(Times(5, s4)), 6)
        s6 == Over(TimesHg(Times(6, s5)), 7)
        s7 == Over(TimesHg(Times(7, s6)), 8)
    IN  << s0, s1, s2, s3, s4, s5, s6, s7 >>

\* The quantities a sample is a combination of: the cached x0, v0, a0 and
\* the coefficients b.p0..b.p6 of the completed step.
Basis == << "x0", "v0", "a0", "b0", "b1", "b2", "b3", "b4", "b5", "b6" >>

One == Coef(1, 1, 0)

None == Coef(0, 1, 0)

\* Lines 1985-1987: xx0 = x0 + (s[8]*b.p6 + .. + s[2]*b.p0 + s[1]*a0 +
\* s[0]*v0), as the coefficient of each quantity.
PredictedPosition(dt) ==
    LET s == PositionSums(dt)
    IN  [k \in 1 .. Len(Basis) |-> IF k = 1 THEN One ELSE s[k - 1]]

\* Lines 2016-2018: vx0 = v0 + s[7]*b.p6 + .. + s[1]*b.p0 + s[0]*a0.
PredictedVelocity(dt) ==
    LET s == VelocitySums(dt)
    IN  [k \in 1 .. Len(Basis) |->
            IF k = 1 THEN None ELSE IF k = 2 THEN One ELSE s[k - 2]]

\* Component c of a sample: 0..2 positions, 3..5 velocities (lines
\* 1993-1996, 2024-2027).
Predicted(c, dt) ==
    IF c < 3 THEN PredictedPosition(dt) ELSE PredictedVelocity(dt)

\* The end-of-step update of the integrator: x0 + dt*v0 + dt^2*(a0/2 + b0/6
\* + b1/12 + b2/20 + b3/30 + b4/42 + b5/56 + b6/72) and v0 + dt*(a0 + b0/2
\* + b1/3 + b2/4 + b3/5 + b4/6 + b5/7 + b6/8).
ias15_update(c, dt) ==
    IF c < 3
    THEN [k \in 1 .. Len(Basis) |->
            IF k = 1 THEN Coef(1, 1, 0) ELSE IF k = 2 THEN Coef(dt, 1, 0)
            ELSE Coef(dt * dt, (k - 1) * (k - 2), 0)]
    ELSE [k \in 1 .. Len(Basis) |->
            IF k = 1 THEN Coef(0, 1, 0) ELSE IF k = 2 THEN Coef(1, 1, 0)
            ELSE IF k = 3 THEN Coef(dt, 1, 0) ELSE Coef(dt, k - 2, 0)]

\* The value of a coefficient at the last sub-node, where hg[n] = 1.
AtOne(s) == Coef(s.num, s.den, 0)

\* One sample component: the sub-node, the step (its beginning and its
\* length, in units of tstep), the particle and the component are chosen,
\* then the recorder's time stamp and sums are formed.
node_setup(n, t, dt, j, c) ==
    /\ pc = "idle"
    /\ kern.pc = "idle"
    /\ kern' = [pc |-> "node", n |-> n, t_begin |-> t, dt |-> dt, j |-> j,
                c |-> c]
    /\ UNCHANGED << fac, last_steps_done, jpl_file, spk_file, env_changed,
                    called, q, session >>

predict_sample ==
    /\ kern.pc = "node"
    /\ kern' = [pc |-> "sample", n |-> kern.n, t_begin |-> kern.t_begin,
                dt |-> kern.dt, j |-> kern.j, c |-> kern.c,
                value |-> Predicted(kern.c, kern.dt),
                stamp |-> SampleStamp(kern.t_begin + kern.dt, kern.dt, kern.n)]
    /\ UNCHANGED << fac, last_steps_done, jpl_file, spk_file, env_changed,
                    called, q, session >>

sample_stored ==
    /\ kern.pc = "sample"
    /\ kern' = NoKern
    /\ UNCHANGED << fac, last_steps_done, jpl_file, spk_file, env_changed,
                    called, q, session >>

NextRecorder ==
    \/ \E n \in 1 .. nsub, t \in 0 .. MaxT, dt \in 1 .. MaxDt,
          j \in 0 .. MaxReal - 1, c \in 0 .. 5 : node_setup(n, t, dt, j, c)
    \/ predict_sample
    \/ sample_stored

SpecRecorder == Init /\ [][NextRecorder]_vars

\* The polynomial of the claim: the coefficient of each quantity in
\* x0 + dt*h*v0 + (dt*h)^2*(a0/2 + h*b0/6 + h^2*b1/12 + h^3*b2/20 + h^4*b3/30
\* + h^5*b4/42 + h^6*b5/56 + h^7*b6/72) and in v0 + dt*h*(a0 + h*b0/2 +
\* h^2*b1/3 + h^3*b2/4 + h^4*b3/5 + h^5*b4/6 + h^6*b5/7 + h^7*b6/8).
PositionDivisors == << 6, 12, 20, 30, 42, 56, 72 >>

StatedPosition(dt) ==
    [k \in 1 .. Len(Basis) |->
        IF k = 1 THEN Coef(1, 1, 0)
        ELSE IF k = 2 THEN Coef(dt, 1, 1)
        ELSE IF k = 3 THEN Coef(dt * dt, 2, 2)
        ELSE Coef(dt * dt, PositionDivisors[k - 3], 2 + (k - 3))]

StatedVelocity(dt) ==
    [k \in 1 .. Len(Basis) |->
        IF k = 1 THEN Coef(0, 1, 0)
        ELSE IF k = 2 THEN Coef(1, 1, 0)
        ELSE IF k = 3 THEN Coef(dt, 1, 1)
        ELSE Coef(dt, k - 2, 1 + (k - 3))]

Sampled == kern.pc = "sample"

\* C25: for every sub-node and step length the recorder's sums give, as
\* polynomials in h = hg[n], exactly the stated position and velocity;
\* at the last sub-node, where h = 1, they are the integrator's
\* end-of-step update.
C25_RecorderPolynomial ==
    Sampled =>
       /\ kern.value = (IF kern.c < 3 THEN StatedPosition(kern.dt)
                        ELSE StatedVelocity(kern.dt))
       /\ hg_num(kern.n) = hg_den =>
             [k \in 1 .. Len(Basis) |-> AtOne(kern.value[k])]
                = ias15_update(kern.c, kern.dt)

C25_Witness ==
    /\ Sampled
    /\ kern.n = nsub
    /\ kern.dt = 2
    /\ kern.c = 1
    /\ kern.value[10] = Coef(1, 18, 9)
    /\ kern.value[3] = Coef(2, 1, 2)

----------------------------------------------------------------------------
(* The sub-nodes and the time stamps *)

\* The stamp of sub-node n of the step of the state, as the code forms it
\* from the end of the step.
StampOf(n) == SampleStamp(kern.t_begin + kern.dt, kern.dt, n)

\* C26: the sub-nodes hg[1..nsub] increase strictly, lie in (0, 1] and end
\* at 1; the stamp of sample n is t_begin + hg[n]*dt, formed from the end
\* of the step; the last sample carries the time of the end of the step,
\* and for dt > 0 the stamps of a step increase strictly from above the
\* stamp that precedes them, the beginning of the step.
C26_StampsIncrease ==
    /\ \A n \in 1 .. nsub - 1 : hg_num(n) < hg_num(n + 1)
    /\ \A n \in 1 .. nsub : 0 < hg_num(n) /\ hg_num(n) <= hg_den
    /\ hg_num(nsub) = hg_den
    /\ Sampled =>
          /\ kern.stamp = hg_den * kern.t_begin + hg_num(kern.n) * kern.dt
          /\ StampOf(nsub) = hg_den * (kern.t_begin + kern.dt)
          /\ hg_den * kern.t_begin < StampOf(1)
          /\ \A n \in 1 .. kern.n - 1 : StampOf(n) < kern.stamp

C26_Witness ==
    /\ Sampled
    /\ kern.t_begin = 1
    /\ kern.dt = 2
    /\ kern.n = 3
    /\ kern.stamp = 16

----------------------------------------------------------------------------
(* The earlier variant of the force routine (src/unnamed/part_001) *)

\* The number of variational particles the harmonic and relativistic blocks
\* of the earlier variant take for each real particle.
VarPerReal == 6

Cross(a, b) ==
    << a[2] * b[3] - a[3] * b[2], a[3] * b[1] - a[1] * b[3],
       a[1] * b[2] - a[2] * b[1] >>

\* The readers' barycentric velocities of the planetary bodies.
BaryVel(i) == << 1, i, 0 - 1 >>

\* Parent vector with VarPerReal variational particles for each of n real
\* particles, in the order of the real particles.
SixEach(n) == [k \in 1 .. VarPerReal * n |-> (k - 1) \div VarPerReal]

\* A run of the earlier variant: frame, particles, and whether real
\* particle 0 moves along its heliocentric position vector.
EarlierInputs ==
    { in \in
        { [geocentric |-> g, n_particles |-> n, invar_part |-> ip,
           radial |-> rd] :
             g \in {0, 1}, n \in 1 .. MaxReal,
             ip \in ParentVectors \cup { SixEach(k) : k \in 1 .. MaxReal },
             rd \in BOOLEAN } :
        \A k \in 1 .. Len(in.invar_part) : in.invar_part[k] <= in.n_particles }

\* part_001 lines 233-273: all_ephem has no status; a reader that cannot
\* open its file ends the process (lines 133-136, 206-209).  Position of
\* body i: planetary bodies barycentric, small bodies heliocentric plus Sun.
earlier_all_ephem(i) == IF i < N_ephem THEN Bary(i) ELSE Plus(Helio(i), Bary(0))

\* part_001 lines 316-332: the origin of the frame.
EarlierOrigin(in) == IF in.geocentric = 1 THEN earlier_all_ephem(3) ELSE Zero3

EarlierOriginVel(in) == IF in.geocentric = 1 THEN BaryVel(3) ELSE Zero3

\* Coordinates of real particle j in the frame of the run.
EarlierPos(in, j) == << 0 - (j + 1), j + 2, 3 >>

\* Heliocentric position of real particle j (part_001 lines 770-772).
SunPos(in, j) ==
    Plus(EarlierPos(in, j), Minus(EarlierOrigin(in), earlier_all_ephem(0)))

\* Velocity of real particle j in the frame of the run; with "radial" the
\* heliocentric velocity of particle 0 is twice its heliocentric position.
EarlierVel(in, j) ==
    IF in.radial /\ j = 0
    THEN Minus(Plus(SunPos(in, 0), SunPos(in, 0)),
               Minus(EarlierOriginVel(in), BaryVel(0)))
    ELSE << j + 1, 0 - 2, j >>

\* Heliocentric velocity (part_001 lines 778-780).
SunVel(in, j) ==
    Plus(EarlierVel(in, j), Minus(EarlierOriginVel(in), BaryVel(0)))

\* One addition to the acceleration of a particle: the term, its sign, the
\* body, the real particle at whose state it was computed, whether the
\* value is finite, and the terms of the accumulated acceleration that the
\* computation read.
Term(term, sign, body, at, finite, read) ==
    [term |-> term, sign |-> sign, body |-> body, at |-> at,
     finite |-> finite, read |-> read]

TermNames(seq) == [n \in DOMAIN seq |-> seq[n].term]

\* Accelerations by C index, and the accesses to particles[v] with v
\* outside the array.
EarlierState(sim) ==
    [acc |-> [k \in 1 .. Len(sim.particles) |-> << >>], outside |-> {}]

Reals(in) == 0 .. in.n_particles - 1

\* part_001 lines 321-327: the indirect term, first in the earlier variant.
earlier_indirect(es, in) ==
    [es EXCEPT !.acc =
        [k \in DOMAIN @ |->
            IF k - 1 \in Reals(in)
            THEN Append(@[k], Term("indirect", 0 - 1, 3, k - 1, TRUE, << >>))
            ELSE @[k]]]

\* part_001 lines 335-366: direct gravity, bodies outermost.
earlier_direct(es, in) ==
    [es EXCEPT !.acc =
        [k \in DOMAIN @ |->
            IF k - 1 \in Reals(in)
            THEN @[k] \o
                 [n \in 1 .. N_tot |->
                    LET d == Plus(EarlierPos(in, k - 1),
                                  Minus(EarlierOrigin(in),
                                        earlier_all_ephem(n - 1)))
                    IN  Term("direct", 0 - 1, n - 1, k - 1, Dot(d, d) # 0,
                             << >>)]
            ELSE @[k]]]

\* The real particle whose iteration reaches the body of "if(tp == j)" for
\* configuration v (numbered from 0), or -1 when none does.
Reached(in, sim, v) ==
    IF v < Len(sim.var_config) /\ sim.var_config[v + 1].testparticle \in Reals(in)
    THEN sim.var_config[v + 1].testparticle
    ELSE 0 - 1

\* part_001 lines 369-423: for every body and real particle j, every
\* configuration v with testparticle j reads particles[v] and adds to
\* particles[v]: the configuration number is taken as the particle index.
earlier_direct_var(es, in, sim) ==
    [es EXCEPT !.acc =
        [k \in DOMAIN @ |->
            LET v == k - 1
            IN  IF Reached(in, sim, v) >= 0
                THEN @[k] \o
                     [n \in 1 .. N_tot |->
                        LET j == Reached(in, sim, v)
                            d == Plus(EarlierPos(in, j),
                                      Minus(EarlierOrigin(in),
                                            earlier_all_ephem(n - 1)))
                        IN  Term("direct_var", 1, n - 1, j, Dot(d, d) # 0,
                                 << >>)]
                ELSE @[k]]]

\* The indices of "for(int v = N_real + 6*j; v < N_real + 6*(j+1); v++)".
Stride(in, j) ==
    in.n_particles + VarPerReal * j ..
        in.n_particles + VarPerReal * (j + 1) - 1

\* The real particle j with idx in Stride(in, j), or -1.
StrideOwner(in, idx) ==
    IF idx >= in.n_particles
       /\ (idx - in.n_particles) \div VarPerReal \in Reals(in)
    THEN (idx - in.n_particles) \div VarPerReal
    ELSE 0 - 1

\* The variational loops of part_001 lines 567-604, 704-737 and 897-921:
\* particles[v] is read and added to for every v of the stride of j; an
\* index past the end of the array is outside it.
earlier_children(es, in, term, body) ==
    [es EXCEPT
       !.acc = [k \in DOMAIN @ |->
                  IF StrideOwner(in, k - 1) >= 0
                  THEN Append(@[k], Term(term, 1, body, StrideOwner(in, k - 1),
                                         TRUE, << >>))
                  ELSE @[k]],
       !.outside = @ \cup
          { [index |-> v, term |-> term] :
              v \in { w \in UNION { Stride(in, j) : j \in Reals(in) } :
                         w >= Len(es.acc) } }]

\* part_001 lines 481-605 (Earth J2/J4) and 639-739 (solar J2): the term of
\* real particle j, then the stride of j.
earlier_harmonics(es, in, term, body) ==
    earlier_children(
        [es EXCEPT !.acc =
            [k \in DOMAIN @ |->
                IF k - 1 \in Reals(in)
                THEN Append(@[k], Term(term, 1, body, k - 1, TRUE, << >>))
                ELSE @[k]]],
        in, term \o "_var", body)

\* Whether A1*g*dx/r + A2*g*tx/t + A3*g*hx/h is finite for real particle j:
\* r, t and h are divisors (part_001 lines 774-799).
NongravFinite(in, j) ==
    LET d  == SunPos(in, j)
        h  == Cross(d, SunVel(in, j))
        tt == Cross(h, d)
    IN  Dot(d, d) # 0 /\ Dot(h, h) # 0 /\ Dot(tt, tt) # 0

\* part_001 lines 751-801: with A1 = A2 = A3 = 0 the sum added is 0 when it
\* is finite, which leaves the acceleration as it was, and NaN otherwise.
earlier_nongrav(es, in) ==
    [es EXCEPT !.acc =
        [k \in DOMAIN @ |->
            IF k - 1 \in Reals(in) /\ ~NongravFinite(in, k - 1)
            THEN Append(@[k], Term("nongrav", 1, 0, k - 1, FALSE, << >>))
            ELSE @[k]]]

\* part_001 lines 810-921: the relativistic term of real particle j is
\* computed from the copy p of particles[j], acceleration included (lines
\* 856-865), then the stride of j.
earlier_solar_GR(es, in) ==
    earlier_children(
        [es EXCEPT !.acc =
            [k \in DOMAIN @ |->
                IF k - 1 \in Reals(in)
                THEN Append(@[k],
                            Term("solar_GR", 1, 0, k - 1,
                                 Dot(SunPos(in, k - 1), SunPos(in, k - 1)) # 0,
                                 TermNames(@[k])))
                ELSE @[k]]],
        in, "solar_GR_var", 0)

\* The blocks of the earlier variant in the order of its code.
EarlierBlocks(geo) ==
    (IF geo = 1 THEN << "indirect" >> ELSE << >>)
    \o << "direct", "direct_var", "earth_J2J4", "solar_J2", "nongrav",
          "solar_GR" >>

EarlierBlock(es, in, sim, b) ==
    CASE b = "indirect"   -> earlier_indirect(es, in)
      [] b = "direct"     -> earlier_direct(es, in)
      [] b = "direct_var" -> earlier_direct_var(es, in, sim)
      [] b = "earth_J2J4" -> earlier_harmonics(es, in, "earth_J2J4", 3)
      [] b = "solar_J2"   -> earlier_harmonics(es, in, "solar_J2", 0)
      [] b = "nongrav"    -> earlier_nongrav(es, in)
      [] b = "solar_GR"   -> earlier_solar_GR(es, in)

RECURSIVE EarlierRun(_, _, _, _, _)
EarlierRun(es, in, sim, B, k) ==
    IF k > Len(B) THEN es
    ELSE EarlierRun(EarlierBlock(es, in, sim, B[k]), in, sim, B, k + 1)

\* part_001 lines 275-925 with both parameters set.
earlier_ephemeris_forces(es, in, sim) ==
    EarlierRun(es, in, sim, EarlierBlocks(in.geocentric), 1)

\* part_001 lines 1041-1070 fill the particle array as the current source
\* does.
earlier_setup(in) ==
    /\ pc = "idle"
    /\ kern.pc = "idle"
    /\ LET sim == AddParticles(in.n_particles, in.invar_part)
       IN  kern' = [pc |-> "earlier", in |-> in, sim |-> sim,
                    ks |-> EarlierState(sim)]
    /\ UNCHANGED << fac, last_steps_done, jpl_file, spk_file, env_changed,
                    called, q, session >>

\* One evaluation.  A reader whose file cannot be opened ends the process.
\* An addition to particles[v] outside the array is undefined: the process
\* may go on or be ended.
earlier_update_acceleration ==
    /\ kern.pc = "earlier"
    /\ IF jpl_file /\ spk_file
       THEN LET es == earlier_ephemeris_forces(kern.ks, kern.in, kern.sim)
            IN  \E out \in IF es.outside = {} THEN {"earlier_done"}
                           ELSE {"earlier_done", "ended"} :
                   kern' = [kern EXCEPT !.pc = out, !.ks = es]
       ELSE kern' = [kern EXCEPT !.pc = "ended"]
    /\ UNCHANGED << fac, last_steps_done, jpl_file, spk_file, env_changed,
                    called, q, session >>

earlier_return ==
    /\ kern.pc \in {"earlier_done", "ended"}
    /\ kern' = NoKern
    /\ UNCHANGED << fac, last_steps_done, jpl_file, spk_file, env_changed,
                    called, q, session >>

NextEarlier ==
    \/ \E in \in EarlierInputs : earlier_setup(in)
    \/ earlier_update_acceleration
    \/ earlier_return

SpecEarlier == Init /\ [][NextEarlier]_vars

----------------------------------------------------------------------------
(* The terms of one evaluation in any order *)

\* The terms of the routine: each with the look-ups whose results it works
\* with, then its loop.  The relativistic loop works with GMsun of line 673
\* and the Sun's state of line 794; the EIH block follows it.
TermNamesOf(variant, geo) ==
    {"direct", "earth_J2J4", "solar_J2", "nongrav", "solar_GR"}
    \cup (IF geo = 1 THEN {"indirect"} ELSE {})

TermSteps(b) ==
    CASE b = "direct"     -> PerBody("b", "direct") \o PerBody("c", "direct_var")
      [] b = "earth_J2J4" -> << Call(3, "", "e"), Loop("earth_J2J4") >>
      [] b = "solar_J2"   -> << Call(0, "", "r"), Loop("solar_J2") >>
      [] b = "nongrav"    -> << Call(0, "", "s"), Loop("nongrav") >>
      [] b = "solar_GR"   -> << Call(0, "", "r"), Call(0, "", "s"),
                                Loop("solar_GR"), Loop("eih") >>
      [] b = "indirect"   -> << Call(3, "", "o"), Loop("indirect") >>

\* Term b of the current source on the kernel state ks.
ApplyTerm(ks, in, sim, b) ==
    RunSteps(ks, in, sim, TermSteps(b), 1, Len(TermSteps(b)))

\* Term b of the earlier variant; direct gravity has two blocks.
ApplyEarlierTerm(es, in, sim, b) ==
    IF b = "direct"
    THEN earlier_direct_var(earlier_direct(es, in), in, sim)
    ELSE EarlierBlock(es, in, sim, b)

\* Runs with at most one variational particle, bound to real particle 0.
OrderInputs ==
    { in \in KernInputs :
         /\ in.c_set /\ in.geo_set /\ ~in.stale /\ ~in.close
         /\ in.invar_part \in { << >>, << 0 >> } }

EarlierOrderInputs ==
    { in \in EarlierInputs : ~in.radial /\ in.invar_part \in { << >>, << 0 >> } }

\* The state the terms start from: cleared accelerations, the locals after
\* the choice of origin.
order_setup(in) ==
    /\ pc = "idle"
    /\ kern.pc = "idle"
    /\ jpl_file /\ spk_file
    /\ LET sim == AddParticles(in.n_particles, in.invar_part)
           ks0 == reb_zero_accelerations(KernelState(fac, in, sim))
           ks1 == IF in.geocentric = 1
                  THEN Fetch(Locals(ks0, in), 3, "a", "o")
                  ELSE Locals(ks0, in)
       IN  kern' = [pc |-> "order", variant |-> "current", in |-> in,
                    sim |-> sim, ks |-> ks1,
                    ref |-> ephemeris_forces(ks0, in, sim),
                    left |-> TermNamesOf("current", in.geocentric)]
    /\ fac' = kern'.ks.fac
    /\ UNCHANGED << last_steps_done, jpl_file, spk_file, env_changed, called,
                    q, session >>

earlier_order_setup(in) ==
    /\ pc = "idle"
    /\ kern.pc = "idle"
    /\ jpl_file /\ spk_file
    /\ LET sim == AddParticles(in.n_particles, in.invar_part)
       IN  kern' = [pc |-> "order", variant |-> "earlier", in |-> in,
                    sim |-> sim, ks |-> EarlierState(sim),
                    ref |-> earlier_ephemeris_forces(EarlierState(sim), in, sim),
                    left |-> TermNamesOf("earlier", in.geocentric)]
    /\ UNCHANGED << fac, last_steps_done, jpl_file, spk_file, env_changed,
                    called, q, session >>

\* Any term not yet applied is applied next.
apply_term(b) ==
    /\ kern.pc = "order"
    /\ b \in kern.left
    /\ IF kern.variant = "current"
       THEN /\ kern' = [kern EXCEPT
                          !.ks = ApplyTerm(@, kern.in, kern.sim, b),
                          !.left = @ \ {b}]
            /\ fac' = kern'.ks.fac
       ELSE /\ kern' = [kern EXCEPT
                          !.ks = ApplyEarlierTerm(@, kern.in, kern.sim, b),
                          !.left = @ \ {b}]
            /\ fac' = fac
    /\ UNCHANGED << last_steps_done, jpl_file, spk_file, env_changed, called,
                    q, session >>

order_return ==
    /\ kern.pc = "order"
    /\ kern.left = {}
    /\ kern' = [kern EXCEPT !.pc = "ordered"]
    /\ UNCHANGED << fac, last_steps_done, jpl_file, spk_file, env_changed,
                    called, q, session >>

NextOrder ==
    \/ \E in \in OrderInputs : order_setup(in)
    \/ \E in \in EarlierOrderInputs : earlier_order_setup(in)
    \/ \E b \in TermNamesOf("current", 1) : apply_term(b)
    \/ order_return

SpecOrder == Init /\ [][NextOrder]_vars

----------------------------------------------------------------------------
(* Whether the order of the terms matters *)

Ordered == kern.pc = "ordered"

Range(seq) == { seq[n] : n \in DOMAIN seq }

\* The same contributions, each as many times, in any order.
SameContributions(a, b) ==
    /\ Len(a) = Len(b)
    /\ \A c \in Range(a) \cup Range(b) :
          Cardinality({ n \in DOMAIN a : a[n] = c })
             = Cardinality({ n \in DOMAIN b : b[n] = c })

\* The accumulated accelerations a term has read: those the indirect block
\* of the current source prints, those the relativistic term of the earlier
\* variant is computed from.
ReadBy(idx) ==
    IF kern.variant = "current"
    THEN { TermNames(kern.ks.printed[idx][n]) :
              n \in DOMAIN kern.ks.printed[idx] }
    ELSE { kern.ks.acc[idx][n].read : n \in DOMAIN kern.ks.acc[idx] }

\* Contributions other than the relativistic term of the real particles.
NotGR(seq) == SelectSeq(seq, LAMBDA c : c.term # "solar_GR")

\* C22 as stated: no term reads an acceleration another term accumulated,
\* and in every order of the terms every particle gets the contributions
\* it gets in the order of the code.
C22_NoTermReadsAcceleration ==
    Ordered =>
       \A idx \in DOMAIN kern.ks.acc :
          /\ ReadBy(idx) \subseteq { << >> }
          /\ SameContributions(kern.ks.acc[idx], kern.ref.acc[idx])

\* C22: in the current source every particle gets the same contributions
\* in every order of the terms, and the only accumulated acceleration read
\* is the one the indirect block prints for each real particle before it
\* takes the origin's acceleration off.  In the earlier variant every
\* contribution but the relativistic one is the same in every order; the
\* relativistic term of a real particle is computed from what the terms
\* before it accumulated into that particle.
C22_ContributionsOrderFree ==
    Ordered =>
       \A idx \in DOMAIN kern.ks.acc :
          LET a == kern.ks.acc[idx]
          IN  IF kern.variant = "current"
              THEN /\ SameContributions(a, kern.ref.acc[idx])
                   /\ Len(kern.ks.printed[idx]) =
                         (IF kern.in.geocentric = 1 /\ idx <= NReal
                          THEN 1 ELSE 0)
                   /\ \A n \in DOMAIN a :
                         a[n].term = "indirect" =>
                            kern.ks.printed[idx] = << SubSeq(a, 1, n - 1) >>
              ELSE /\ SameContributions(NotGR(a), NotGR(kern.ref.acc[idx]))
                   /\ \A n \in DOMAIN a :
                         a[n].read =
                            (IF a[n].term = "solar_GR"
                             THEN TermNames(SubSeq(a, 1, n - 1)) ELSE << >>)

\* The relativistic term applied first in the earlier variant, the
\* indirect term applied first in the current source.
C22_Witness ==
    /\ Ordered
    /\ kern.in.geocentric = 1
    /\ kern.in.invar_part = << 0 >>
    /\ \/ /\ kern.variant = "earlier"
          /\ kern.ks.acc[1][1].term = "solar_GR"
          /\ kern.ref.acc[1][1].term = "indirect"
       \/ /\ kern.variant = "current"
          /\ kern.ks.acc[1][1].term = "indirect"
          /\ kern.ks.printed[1] = << << >> >>

----------------------------------------------------------------------------
(* The blocks that are switched off *)

\* Current source: an iteration of the non-gravitational loop or of the
\* Einstein-Infeld-Hoffmann loop leaves every acceleration as it was,
\* whatever the state of the particle.
SwitchedOffCurrent ==
    [][(CurrentLoop \in {"nongrav", "eih"}) => (kern'.ks.acc = kern.ks.acc)]_vars

\* The additions of the non-gravitational block of the earlier variant found
\* in the accelerations of particle idx.
NongravAdded(idx) ==
    { n \in DOMAIN kern.ks.acc[idx + 1] :
         kern.ks.acc[idx + 1][n].term = "nongrav" }

\* C27: with A1 = A2 = A3 = 0 the non-gravitational block changes the
\* acceleration of no particle, for every particle state, zero heliocentric
\* angular momentum included.  Stated for the earlier variant, whose block
\* executes its addition: after an evaluation no acceleration holds an
\* addition of the block.
C27_SwitchedOffBlocksInert ==
    kern.pc = "earlier_done" =>
        \A k \in DOMAIN kern.ks.acc : NongravAdded(k - 1) = {}

----------------------------------------------------------------------------
(* A failed look-up of a perturber *)

\* The direct and variational accumulations into particle idx that were
\* formed with GM and position of a look-up that failed.
FromFailedQuery(idx) ==
    { n \in TermsOf(idx, "direct") \cup TermsOf(idx, "direct_var") :
         ~kern.ks.acc[idx + 1][n].ok }

\* C28: when the look-up of perturber i fails during an evaluation, nothing
\* is added to the acceleration of any real or variational particle on
\* behalf of perturber i: no accumulation is formed with values that a
\* failed look-up left in GM and in the position.
C28_FailedQueryAddsNothing ==
    Evaluated => \A idx \in AllParticles : FromFailedQuery(idx) = {}

\* What the routine does when the small-body reader fails and the planetary
\* reader works: the iterations of the small bodies add the term formed
\* with GM and position of the last planetary body.
LeftOverUsed ==
    (Evaluated /\ jpl_file /\ ~spk_file) =>
        \A j \in 0 .. NReal - 1 :
           /\ Cardinality(TermsOf(j, "direct")) = N_tot
           /\ \A n \in N_ephem + 1 .. N_tot :
                 /\ kern.ks.acc[j + 1][n].term = "direct"
                 /\ kern.ks.acc[j + 1][n].body = N_ephem - 1
                 /\ kern.ks.acc[j + 1][n].gm = GMof(N_ephem - 1)
                 /\ ~kern.ks.acc[j + 1][n].ok

----------------------------------------------------------------------------
(* Heartbeats without a new step *)

\* The callback of line 1824 run once more after steps were completed,
\* with no step in between.  kern notes the step count at which it ran.
heartbeat_again ==
    /\ pc = "loop"
    /\ r.steps_done > 0
    /\ Commit(heartbeat(Machine))
    /\ kern' = [pc |-> "beat", step |-> r.steps_done]
    /\ UNCHANGED << pc, jpl_file, spk_file, env_changed, called, q, args,
                    n_out, status >>

NextBeats ==
    \/ \E a \in ArgSet : integration_function_call(a)
    \/ reb_integrate_step
    \/ heartbeat_again
    \/ integration_function_return
    \/ caller_continues
    \/ EnvChange

SpecBeats == Init /\ [][NextBeats]_vars

\* A heartbeat of a run that found the step count above 0 and as the
\* heartbeat before left it.
BeatWithoutStep ==
    pc = "loop" /\ pc' = "loop" /\ r.steps_done > 0
        /\ r'.steps_done = r.steps_done

\* The entries of out_time and out_state that hold the samples of step k.
TimeGroup(k) == { (k - 1) * nsub + n : n \in 1 .. nsub }

StateGroup(k) ==
    { SampleOffset(k, n, r.N, j) + c :
         n \in 1 .. nsub, j \in 0 .. r.N - 1, c \in 0 .. 5 }

\* C29: a heartbeat that finds steps_done > 0 not increased since the
\* heartbeat before writes nothing to out_time or out_state; the samples of
\* every completed step have been written by exactly one heartbeat; after
\* every heartbeat the recorder's last_steps_done equals the integrator's
\* steps_done.
C29_OneHeartbeatPerStep ==
    /\ [](pc = "loop" => last_steps_done = r.steps_done)
    /\ [](pc = "loop" =>
             \A k \in 1 .. r.steps_done :
                /\ \A i \in TimeGroup(k) :
                      i \in DOMAIN outtime /\ outtime[i].n = 1
                /\ \A i \in StateGroup(k) :
                      i \in DOMAIN outstate /\ outstate[i].n = 1)
    /\ [][BeatWithoutStep => (outtime' = outtime /\ outstate' = outstate)]_vars

\* Two steps completed, and a heartbeat run again after the second.
C29_Witness ==
    /\ pc = "loop"
    /\ kern.pc = "beat"
    /\ kern.step = 2
    /\ r.steps_done = 2
    /\ last_steps_done = 2
    /\ outtime[2 * nsub].n = 1
    /\ outstate[SampleOffset(2, nsub, r.N, 0)].n = 1

----------------------------------------------------------------------------
(* The Jacobian contributions of the earlier variant *)

\* The real particles configured as parent of the particle at index idx.
ConfiguredParents(idx) ==
    { kern.sim.var_config[v].testparticle :
         v \in { w \in DOMAIN kern.sim.var_config :
                    kern.sim.var_config[w].index = idx } }

\* The Jacobian contributions found in the acceleration of particle idx.
EarlierJacobians(idx) ==
    { n \in DOMAIN kern.ks.acc[idx + 1] :
         kern.ks.acc[idx + 1][n].term \in VarTerms }

\* C30: in the earlier variant, for every number of real and variational
\* particles and every parent vector, a Jacobian contribution computed at
\* real particle j is added only to variational particles whose configured
\* parent is j: none is added to a real particle, and no particle index
\* outside 0 .. n_real + n_var - 1 is read or written.
C30_JacobiansOnlyToChildren ==
    kern.pc = "earlier_done" =>
        /\ \A idx \in 0 .. Len(kern.ks.acc) - 1 :
              \A n \in EarlierJacobians(idx) :
                 /\ idx >= kern.in.n_particles
                 /\ kern.ks.acc[idx + 1][n].at \in ConfiguredParents(idx)
        /\ kern.ks.outside = {}

\* What the earlier variant does with one real particle and one variational
\* particle whose parent it is: the direct loop adds the Jacobian
\* contributions of all bodies to the real particle, and the three loops
\* over v = N_real + 6*j .. N_real + 6*j + 5 go five particles past the end
\* of the array.
EarlierOneChild ==
    (kern.pc = "earlier_done" /\ kern.in.n_particles = 1
        /\ kern.in.invar_part = << 0 >>) =>
        /\ Cardinality({ n \in EarlierJacobians(0) :
                            kern.ks.acc[1][n].term = "direct_var" }) = N_tot
        /\ { n \in EarlierJacobians(1) :
                kern.ks.acc[2][n].term = "direct_var" } = {}
        /\ { o.index : o \in kern.ks.outside } = 2 .. 6

=============================================================================
